---------------------------- MODULE Spec2Model ----------------------------
(***************************************************************************)
(* A model of photo-sorter: the project store (src/src/projectManager.js)  *)
(* and the export / revert pipeline of the main process                    *)
(* (src/photo-sorter.js).                                                  *)
(*                                                                         *)
(* Strings that the code inspects character by character (tags, folder     *)
(* names) are sequences of one-character strings, so that trimming, case   *)
(* folding and sanitisation are computed and not assumed.                  *)
(***************************************************************************)
EXTENDS Integers, Sequences, FiniteSets, TLC

(***************************************************************************)
(* Characters and strings                                                  *)
(***************************************************************************)

\* \s of the regular expressions and of String.prototype.trim
WhiteSpace == {" ", "\t"}

UpperLetters == <<"A","B","C","D","E","F","G","H","I","J","K","L","M",
                  "N","O","P","Q","R","S","T","U","V","W","X","Y","Z">>

LowerLetters == <<"a","b","c","d","e","f","g","h","i","j","k","l","m",
                  "n","o","p","q","r","s","t","u","v","w","x","y","z">>

\* the letter pairs as tables, from upper to lower case and back
LowerOf ==
    [c \in {UpperLetters[i] : i \in 1..26} |->
        LowerLetters[CHOOSE i \in 1..26 : UpperLetters[i] = c]]

UpperOf ==
    [c \in {LowerLetters[i] : i \in 1..26} |->
        UpperLetters[CHOOSE i \in 1..26 : LowerLetters[i] = c]]

LowerChar(c) == IF c \in DOMAIN LowerOf THEN LowerOf[c] ELSE c

UpperChar(c) == IF c \in DOMAIN UpperOf THEN UpperOf[c] ELSE c

\* String.prototype.toLowerCase / toUpperCase
toLowerCase(s) == [i \in 1..Len(s) |-> LowerChar(s[i])]

toUpperCase(s) == [i \in 1..Len(s) |-> UpperChar(s[i])]

RECURSIVE TrimStart(_)
TrimStart(s) ==
    IF s # <<>> /\ Head(s) \in WhiteSpace THEN TrimStart(Tail(s)) ELSE s

RECURSIVE TrimEnd(_)
TrimEnd(s) ==
    IF s # <<>> /\ s[Len(s)] \in WhiteSpace
    THEN TrimEnd(SubSeq(s, 1, Len(s) - 1))
    ELSE s

\* String.prototype.trim
Trim(s) == TrimEnd(TrimStart(s))

\* s.replace(/\s+/g, ' '): of every run of white space the first character
\* stays, as a space
CollapseWhiteSpace(s) ==
    LET marked == [i \in 1..Len(s) |->
                     [c |-> IF s[i] \in WhiteSpace THEN " " ELSE s[i],
                      kept |-> \/ s[i] \notin WhiteSpace
                               \/ i = 1
                               \/ s[i - 1] \notin WhiteSpace]]
        Kept(m) == m.kept
        run == SelectSeq(marked, Kept)
    IN  [k \in 1..Len(run) |-> run[k].c]

(***************************************************************************)
(* Tag rules of the project store                                          *)
(***************************************************************************)

\* A raw tag as it arrives from a caller: a string, or some other value.
RawString(s) == [isString |-> TRUE, chars |-> s]

NotAString == [isString |-> FALSE, chars |-> <<>>]

normalizeTag(raw) ==
    IF ~raw.isString THEN <<>> ELSE CollapseWhiteSpace(Trim(raw.chars))

\* tags compared as they were typed
equalTagCaseSensitive(a, b) == a = b

equalTag(a, b) == toLowerCase(a) = toLowerCase(b)

containsTag(list, candidate) ==
    \E i \in 1..Len(list) : equalTag(list[i], candidate)

(***************************************************************************)
(* Folder-name sanitisation                                                *)
(***************************************************************************)

InvalidFolderChars == {"<", ">", ":", "\"", "/", "\\", "|", "?", "*"}

ReservedNames ==
    { <<"C","O","N">>, <<"P","R","N">>, <<"A","U","X">>, <<"N","U","L">> }
    \cup { <<"C","O","M",d>> : d \in {"1","2","3","4","5","6","7","8","9"} }
    \cup { <<"L","P","T",d>> : d \in {"1","2","3","4","5","6","7","8","9"} }

MaxFolderLen == 100

ReplaceInvalid(s) ==
    [i \in 1..Len(s) |-> IF s[i] \in InvalidFolderChars THEN "_" ELSE s[i]]

\* s.replace(/[ .]+$/g, '')
RECURSIVE StripTrailingDotsSpaces(_)
StripTrailingDotsSpaces(s) ==
    IF s # <<>> /\ s[Len(s)] \in {" ", "."}
    THEN StripTrailingDotsSpaces(SubSeq(s, 1, Len(s) - 1))
    ELSE s

\* if (reserved.has(s.toUpperCase())) s = '_' + s
PrefixIfReserved(s) ==
    IF toUpperCase(s) \in ReservedNames THEN <<"_">> \o s ELSE s

\* if (s.length === 0) s = 'tag'
TagIfEmpty(s) == IF Len(s) = 0 THEN <<"t", "a", "g">> ELSE s

\* s.slice(0, 100)
Slice100(s) == IF Len(s) > MaxFolderLen THEN SubSeq(s, 1, MaxFolderLen) ELSE s

safeTagToFolder(tag) ==
    Slice100(TagIfEmpty(PrefixIfReserved(StripTrailingDotsSpaces(
        Trim(CollapseWhiteSpace(ReplaceInvalid(Trim(tag))))))))

(***************************************************************************)
(* The project object and its JSON file                                    *)
(*                                                                         *)
(* A project value is what this.project can hold: null, or an object whose *)
(* images mapping and tags list may each be missing (a project file read   *)
(* from disk is used as parsed).  images keeps the insertion order of its  *)
(* keys, as a JavaScript object does: a sequence of [name, tags] entries.  *)
(* version, root and updatedAt carry no behaviour and are left out.        *)
(***************************************************************************)

NullProject ==
    [kind |-> "null", hasImages |-> FALSE, images |-> <<>>,
     hasTags |-> FALSE, tags |-> <<>>]

ScalarJson ==
    [kind |-> "scalar", hasImages |-> FALSE, images |-> <<>>,
     hasTags |-> FALSE, tags |-> <<>>]

newProject ==
    [kind |-> "object", hasImages |-> TRUE, images |-> <<>>,
     hasTags |-> TRUE, tags |-> <<>>]

ImageNames(images) == { images[i].name : i \in 1..Len(images) }

ImageIndex(images, fileName) ==
    CHOOSE i \in 1..Len(images) : images[i].name = fileName

\* project.images[fileName].tags
ImageTags(images, fileName) == images[ImageIndex(images, fileName)].tags

\* project.images[fileName] = { tags: [] }  /  in-place change of the tags
SetImageTags(images, fileName, tags) ==
    IF fileName \in ImageNames(images)
    THEN [images EXCEPT ![ImageIndex(images, fileName)].tags = tags]
    ELSE Append(images, [name |-> fileName, tags |-> tags])

\* A file of the project directory: absent, unparseable text (garbage, or
\* a partially written document), or a JSON document.
AbsentFile == [kind |-> "absent", doc |-> NullProject]

GarbageFile == [kind |-> "garbage", doc |-> NullProject]

PartialFile == [kind |-> "partial", doc |-> NullProject]

\* JSON.stringify(this.project, null, 2)
JSONstringify(project) == [kind |-> "json", doc |-> project]

safeReadJson(file) ==
    IF file.kind = "json" THEN file.doc ELSE NullProject

(***************************************************************************)
(* Tag mutation API of ProjectManager.  An operator that models a method   *)
(* which can throw returns [threw, project].                               *)
(***************************************************************************)

upsertGlobalTag(project, tag) ==
    LET tags == IF project.hasTags THEN project.tags ELSE <<>>
    IN  [project EXCEPT !.hasTags = TRUE,
                        !.tags = IF containsTag(tags, tag) THEN tags
                                 ELSE Append(tags, tag)]

\* addTag that puts a new tag in front of the tags of the photo
addTagPrepending(project, fileName, rawTag) ==
    LET tag == normalizeTag(rawTag)
    IN  IF tag = <<>> THEN [threw |-> FALSE, project |-> project]
        ELSE IF project.kind # "object" \/ ~project.hasImages
        THEN [threw |-> TRUE, project |-> project]
        ELSE LET tags == IF fileName \in ImageNames(project.images)
                         THEN ImageTags(project.images, fileName)
                         ELSE <<>>
                 tags2 == IF containsTag(tags, tag) THEN tags
                          ELSE <<tag>> \o tags
                 p2 == [project EXCEPT
                          !.images = SetImageTags(project.images, fileName, tags2)]
             IN  [threw |-> FALSE, project |-> upsertGlobalTag(p2, tag)]

addTag(project, fileName, rawTag) ==
    LET tag == normalizeTag(rawTag)
    IN  IF tag = <<>> THEN [threw |-> FALSE, project |-> project]
        ELSE IF project.kind # "object" \/ ~project.hasImages
        THEN [threw |-> TRUE, project |-> project]
        ELSE LET tags == IF fileName \in ImageNames(project.images)
                         THEN ImageTags(project.images, fileName)
                         ELSE <<>>
                 tags2 == IF containsTag(tags, tag) THEN tags
                          ELSE Append(tags, tag)
                 p2 == [project EXCEPT
                          !.images = SetImageTags(project.images, fileName, tags2)]
             IN  [threw |-> FALSE, project |-> upsertGlobalTag(p2, tag)]

\* tags.findIndex(t => equalTag(t, tag)), 0 when there is none
FindTagIndex(tags, tag) ==
    IF containsTag(tags, tag)
    THEN CHOOSE i \in 1..Len(tags) :
            /\ equalTag(tags[i], tag)
            /\ \A j \in 1..(i - 1) : ~equalTag(tags[j], tag)
    ELSE 0

RemoveAt(seq, i) == SubSeq(seq, 1, i - 1) \o SubSeq(seq, i + 1, Len(seq))

\* removeTag that also drops the tag from the global list
removeTagForgetting(project, fileName, rawTag) ==
    LET tag == normalizeTag(rawTag)
        known == IF project.kind = "object" /\ project.hasTags
                 THEN project.tags ELSE <<>>
        gidx == FindTagIndex(known, tag)
    IN  IF tag = <<>> THEN [threw |-> FALSE, project |-> project]
        ELSE IF project.kind # "object" \/ ~project.hasImages
        THEN [threw |-> TRUE, project |-> project]
        ELSE [threw |-> FALSE,
              project |-> IF gidx = 0 THEN project
                          ELSE [project EXCEPT !.tags = RemoveAt(known, gidx)]]

removeTag(project, fileName, rawTag) ==
    LET tag == normalizeTag(rawTag)
    IN  IF tag = <<>> THEN [threw |-> FALSE, project |-> project]
        ELSE IF project.kind # "object" \/ ~project.hasImages
        THEN [threw |-> TRUE, project |-> project]
        ELSE IF fileName \notin ImageNames(project.images)
        THEN [threw |-> FALSE, project |-> project]
        ELSE LET tags == ImageTags(project.images, fileName)
                 idx == FindTagIndex(tags, tag)
             IN  [threw |-> FALSE,
                  project |-> IF idx = 0 THEN project
                              ELSE [project EXCEPT !.images =
                                      SetImageTags(project.images, fileName,
                                                   RemoveAt(tags, idx))]]

getTags(project, fileName) ==
    IF project.kind # "object" \/ ~project.hasImages
    THEN [threw |-> TRUE, tags |-> <<>>]
    ELSE [threw |-> FALSE,
          tags |-> IF fileName \in ImageNames(project.images)
                   THEN ImageTags(project.images, fileName)
                   ELSE <<>>]

getAllTags(project) ==
    IF project.kind # "object"
    THEN [threw |-> TRUE, tags |-> <<>>]
    ELSE [threw |-> FALSE,
          tags |-> IF project.hasTags THEN project.tags ELSE <<>>]

(***************************************************************************)
(* The project directory <root>/.photo-sorter on disk                      *)
(*                                                                         *)
(*   dirExists  the directory exists                                       *)
(*   file       project.json                                               *)
(*   tmp        project.json.tmp                                           *)
(*   backupsDir the backups subdirectory exists                            *)
(*   backups    the number of project-<stamp>.json files in it             *)
(*                                                                         *)
(* writable = FALSE stands for a read-only root: creating a directory,     *)
(* writing, copying, renaming and unlinking under it fail.                 *)
(***************************************************************************)

NoProjectDir ==
    [dirExists |-> FALSE, file |-> AbsentFile, tmp |-> AbsentFile,
     backupsDir |-> FALSE, backups |-> 0]

MAX == 5

ensureProjectDir(pfs, writable) ==
    IF pfs.dirExists THEN [threw |-> FALSE, pfs |-> pfs]
    ELSE IF ~writable THEN [threw |-> TRUE, pfs |-> pfs]
    ELSE [threw |-> FALSE, pfs |-> [pfs EXCEPT !.dirExists = TRUE]]

\* #atomicWrite lines 111-132, the best-effort backup of the file about to
\* be overwritten, in its three steps: the backups directory is made, the
\* file is copied to project-<stamp>.json, all but the MAX newest backups
\* are unlinked.  The stamp is the current second: stampTaken says that a
\* backup of this very second is already there, which the copy overwrites.
atomicWriteMkdirBackups(pfs) == [pfs EXCEPT !.backupsDir = TRUE]

atomicWriteCopyBackup(pfs, stampTaken) ==
    [pfs EXCEPT !.backups = IF stampTaken /\ @ > 0 THEN @ ELSE @ + 1]

atomicWriteTrimBackups(pfs) ==
    [pfs EXCEPT !.backups = IF @ > MAX THEN MAX ELSE @]

\* fs.existsSync(targetPath), and the catch block when the root is read-only
BackupSkipped(pfs, writable) == pfs.file.kind = "absent" \/ ~writable

atomicWriteBackup(pfs, writable, stampTaken) ==
    IF BackupSkipped(pfs, writable) THEN pfs
    ELSE atomicWriteTrimBackups(
           atomicWriteCopyBackup(atomicWriteMkdirBackups(pfs), stampTaken))

\* The write opens project.json itself instead of the temporary file.
atomicWriteDirect(pfs) == [pfs EXCEPT !.file = PartialFile]

\* fs.writeFileSync(tempPath, contents): the file is created or truncated,
\* then the bytes are written.
atomicWriteOpenTmp(pfs) == [pfs EXCEPT !.tmp = PartialFile]

atomicWriteFillTmp(pfs, contents) == [pfs EXCEPT !.tmp = contents]

\* fs.renameSync(tempPath, targetPath)
atomicWriteRename(pfs) == [pfs EXCEPT !.file = pfs.tmp, !.tmp = AbsentFile]

\* writeFileSync makes the directory that is missing
WriteFailsReadOnly(pfs, writable) == ~writable

\* writeFileSync throws when the directory is missing or read-only
WriteFails(pfs, writable) == ~pfs.dirExists \/ ~writable

atomicWrite(pfs, contents, writable, stampTaken) ==
    IF WriteFails(pfs, writable)
    THEN [threw |-> TRUE, pfs |-> atomicWriteBackup(pfs, writable, stampTaken)]
    ELSE [threw |-> FALSE,
          pfs |-> atomicWriteRename(
                    atomicWriteFillTmp(
                      atomicWriteOpenTmp(
                        atomicWriteBackup(pfs, writable, stampTaken)),
                      contents))]

(***************************************************************************)
(* loadOrCreate: [project, pfs] after the call.  It never throws.          *)
(***************************************************************************)

\* a merge that adds an entry for every discovered name, known or not
MergeImagesAppending(images, fileNames) ==
    images \o [i \in 1..Len(fileNames) |-> [name |-> fileNames[i], tags |-> <<>>]]

\* the loop of lines 31-35 over the base names of the discovered photos
RECURSIVE MergeImages(_, _)
MergeImages(images, fileNames) ==
    IF fileNames = <<>> THEN images
    ELSE MergeImages(
           IF Head(fileNames) \in ImageNames(images) THEN images
           ELSE Append(images, [name |-> Head(fileNames), tags |-> <<>>]),
           Tail(fileNames))

LoadedProject(pfs) ==
    IF pfs.file.kind = "absent" THEN newProject
    ELSE LET p == safeReadJson(pfs.file)
         IN  IF p.kind # "object" THEN newProject ELSE p

loadOrCreate(pfs, initialImagePaths, writable, stampTaken) ==
    LET d == ensureProjectDir(pfs, writable)
        p0 == LoadedProject(d.pfs)
    IN  IF d.threw THEN [project |-> newProject, pfs |-> d.pfs]
        ELSE IF initialImagePaths # <<>> /\ ~p0.hasImages
        THEN [project |-> newProject, pfs |-> d.pfs]
        ELSE LET p1 == IF p0.hasImages
                       THEN [p0 EXCEPT !.images =
                               MergeImages(p0.images, initialImagePaths)]
                       ELSE p0
                 w == atomicWrite(d.pfs, JSONstringify(p1), writable, stampTaken)
             IN  [project |-> IF w.threw THEN newProject ELSE p1, pfs |-> w.pfs]

(***************************************************************************)
(* save and the debounce timer.  A pending timer is                        *)
(* [id, mine, remaining, contents]: mine says that the timer belongs to    *)
(* the store the program holds now (a store replaced by a newer one leaves *)
(* its timer pending), remaining is the time in ms until it is due.        *)
(* Timers are kept in the order in which they were set, which is the order *)
(* in which they come due.                                                 *)
(***************************************************************************)

DEBOUNCE_MS == 500

NoTimer == 0

FreshTimerId(timers) ==
    CHOOSE n \in 1..(Len(timers) + 1) :
        \A i \in 1..Len(timers) : timers[i].id # n

keepTimeout(timers, handle) == timers

\* clearTimeout(handle)
clearTimeout(timers, handle) ==
    SelectSeq(timers, LAMBDA t : ~(t.mine /\ t.id = handle))

\* no timer is set
scheduleSaveDropped(timers, saveTimer, contents) ==
    [timers |-> timers, saveTimer |-> saveTimer]

\* #scheduleSave: [timers, saveTimer] after the call
scheduleSave(timers, saveTimer, contents) ==
    LET cleared == IF saveTimer # NoTimer THEN clearTimeout(timers, saveTimer)
                   ELSE timers
        id == FreshTimerId(cleared)
    IN  [timers |-> Append(cleared, [id |-> id, mine |-> TRUE,
                                     remaining |-> DEBOUNCE_MS,
                                     contents |-> contents]),
         saveTimer |-> id]

\* save(): [threw, project, pfs, timers, saveTimer] after the call
save(project, pfs, timers, saveTimer, writable) ==
    LET p == IF project.kind = "null" THEN newProject ELSE project
        d == ensureProjectDir(pfs, writable)
        s == scheduleSave(timers, saveTimer, JSONstringify(p))
    IN  IF d.threw
        THEN [threw |-> TRUE, project |-> p, pfs |-> pfs,
              timers |-> timers, saveTimer |-> saveTimer]
        ELSE [threw |-> FALSE, project |-> p, pfs |-> d.pfs,
              timers |-> s.timers, saveTimer |-> s.saveTimer]

(***************************************************************************)
(* Photo files and folders on disk                                         *)
(*                                                                         *)
(* A file name is [base, sfx]: sfx lists the _<i> suffixes that uniquePath *)
(* has appended, so [base |-> "img001", sfx |-> <<1>>] is img001_1.jpg.    *)
(* A directory is [root, folder]: root is "src" (the source folder, which  *)
(* is also the working directory of the process) or "alt" (another export  *)
(* root), folder is <<>> for the root itself or the name of a folder of    *)
(* it.  disk is [dirs, files, hardLinks]: files is a set of               *)
(* [dir, name, data, ino], one record per directory entry, where ino       *)
(* names the inode, so that two entries with one ino are hard links to one *)
(* file; hardLinks tells whether the filesystem supports fs.linkSync.      *)
(* On a case-insensitive filesystem a folder is found under any casing of  *)
(* its name: its directory entry is kept in lower case.                    *)
(***************************************************************************)

FileNameOf(base) == [base |-> base, sfx |-> <<>>]

Dir(root, folder, caseInsensitive) ==
    [root |-> root,
     folder |-> IF caseInsensitive THEN toLowerCase(folder) ELSE folder]

PathOf(dir, name) == [dir |-> dir, name |-> name]

FilesAt(disk, path) ==
    { f \in disk.files : f.dir = path.dir /\ f.name = path.name }

\* fs.existsSync for the path of a file
existsSync(disk, path) == FilesAt(disk, path) # {}

DataAt(disk, path) == (CHOOSE f \in FilesAt(disk, path) : TRUE).data

InoAt(disk, path) == (CHOOSE f \in FilesAt(disk, path) : TRUE).ino

\* the inode of a file that is created
FreshIno(disk) ==
    1 + (CHOOSE m \in {0} \cup { f.ino : f \in disk.files } :
            \A f \in disk.files : f.ino <= m)

ensureDirSync(disk, dir) ==
    [disk EXCEPT !.dirs = @ \cup {dir, [dir EXCEPT !.folder = <<>>]}]

RECURSIVE FirstFreeSuffix(_, _, _, _)
FirstFreeSuffix(disk, dir, name, i) ==
    LET p == [name EXCEPT !.sfx = Append(name.sfx, i)]
    IN  IF existsSync(disk, PathOf(dir, p))
        THEN FirstFreeSuffix(disk, dir, name, i + 1)
        ELSE p

\* uniquePath(path.join(dir, name)): the free name in dir
uniquePath(disk, dir, name) ==
    IF ~existsSync(disk, PathOf(dir, name)) THEN name
    ELSE FirstFreeSuffix(disk, dir, name, 1)

\* fs.renameSync, which gives the inode of src the name dest; the
\* copy-and-unlink fallback ends with the same names and contents:
\* [threw, disk]
moveWithFallbackSync(disk, src, dest) ==
    IF ~existsSync(disk, src) \/ dest.dir \notin disk.dirs
    THEN [threw |-> TRUE, disk |-> disk]
    ELSE IF src = dest THEN [threw |-> FALSE, disk |-> disk]
    ELSE [threw |-> FALSE,
          disk |-> [disk EXCEPT !.files =
                      (@ \ (FilesAt(disk, src) \cup FilesAt(disk, dest)))
                      \cup {[dir |-> dest.dir, name |-> dest.name,
                             data |-> DataAt(disk, src),
                             ino |-> InoAt(disk, src)]}]]

\* fs.linkSync(src, dest): a second name for the inode of src.  It throws
\* when src is missing, when dest exists, when the folder of dest is
\* missing, and on a filesystem without hard links: [threw, disk]
linkSync(disk, src, dest) ==
    IF \/ ~existsSync(disk, src)
       \/ existsSync(disk, dest)
       \/ dest.dir \notin disk.dirs
       \/ ~disk.hardLinks
    THEN [threw |-> TRUE, disk |-> disk]
    ELSE [threw |-> FALSE,
          disk |-> [disk EXCEPT !.files =
                      @ \cup {[dir |-> dest.dir, name |-> dest.name,
                               data |-> DataAt(disk, src),
                               ino |-> InoAt(disk, src)]}]]

\* fs.copyFileSync(src, dest) without COPYFILE_EXCL: a dest that exists is
\* opened and written in place, so every name of its inode shows the new
\* content; it is left alone when it is src itself: [threw, disk]
copyFileSync(disk, src, dest) ==
    IF ~existsSync(disk, src) \/ dest.dir \notin disk.dirs
    THEN [threw |-> TRUE, disk |-> disk]
    ELSE IF ~existsSync(disk, dest)
    THEN [threw |-> FALSE,
          disk |-> [disk EXCEPT !.files =
                      @ \cup {[dir |-> dest.dir, name |-> dest.name,
                               data |-> DataAt(disk, src),
                               ino |-> FreshIno(disk)]}]]
    ELSE IF InoAt(disk, dest) = InoAt(disk, src)
    THEN [threw |-> FALSE, disk |-> disk]
    ELSE [threw |-> FALSE,
          disk |-> [disk EXCEPT !.files =
                      { IF f.ino = InoAt(disk, dest)
                        THEN [f EXCEPT !.data = DataAt(disk, src)]
                        ELSE f : f \in @ }]]

\* try { fs.linkSync(src, dest) } catch { fs.copyFileSync(src, dest) }
linkOrCopySync(disk, src, dest) ==
    IF linkSync(disk, src, dest).threw
    THEN copyFileSync(disk, src, dest)
    ELSE linkSync(disk, src, dest)

tryUnlink(disk, path) == [disk EXCEPT !.files = @ \ FilesAt(disk, path)]

\* fs.rmSync(p, { recursive: true, force: true })
tryRmDirRecursive(disk, dir) ==
    [disk EXCEPT !.dirs = @ \ {dir},
                 !.files = { f \in @ : f.dir # dir }]

(***************************************************************************)
(* Export plan.  buildExportPlan calls ensureDirSync while it plans, so it *)
(* yields the plan and the disk it leaves: [threw, plan, disk].            *)
(***************************************************************************)

EmptyPlan ==
    [total |-> 0, tagged |-> 0, untagged |-> 0, perTag |-> <<>>,
     moves |-> <<>>, links |-> <<>>]

\* plan.perTag[t] = (plan.perTag[t] || 0) + 1, keys in insertion order
BumpPerTag(perTag, t) ==
    IF \E i \in 1..Len(perTag) : perTag[i].tag = t
    THEN [i \in 1..Len(perTag) |->
            IF perTag[i].tag = t
            THEN [perTag[i] EXCEPT !.count = @ + 1]
            ELSE perTag[i]]
    ELSE Append(perTag, [tag |-> t, count |-> 1])

\* only the first tag of a photo is counted
BumpFirstTag(perTag, tags) == BumpPerTag(perTag, Head(tags))

RECURSIVE BumpPerTags(_, _)
BumpPerTags(perTag, tags) ==
    IF tags = <<>> THEN perTag
    ELSE BumpPerTags(BumpPerTag(perTag, Head(tags)), Tail(tags))

\* the loop of lines 431-436 over the secondary tags; acc is [plan, disk]
RECURSIVE PlanLinks(_, _, _, _, _, _, _)
PlanLinks(acc, tags, i, fileName, destPrimary, exportRoot, ci) ==
    IF i > Len(tags) THEN acc
    ELSE LET folder == Dir(exportRoot, safeTagToFolder(tags[i]), ci)
             d2 == ensureDirSync(acc.disk, folder)
             dest == PathOf(folder, uniquePath(d2, folder, fileName))
         IN  PlanLinks(
               [plan |-> [acc.plan EXCEPT !.links =
                            Append(@, [src |-> destPrimary, dest |-> dest])],
                disk |-> d2],
               tags, i + 1, fileName, destPrimary, exportRoot, ci)

\* path.join(sourceFolder, ...): with the initial sourceFolder '' the path is
\* relative, and names a file of the working directory, which is "src"
RootOf(sourceFolder) == IF sourceFolder = "" THEN "src" ELSE sourceFolder

\* a loop body that takes a photo as one without tags, and files it under
\* the folder "tag"
PlanPhotoFilingUntagged(acc, project, fileName, exportRoot, sourceFolder, ci) ==
    LET folder == Dir(exportRoot, safeTagToFolder(<<>>), ci)
        d1 == ensureDirSync(acc.disk, folder)
    IN  [plan |-> [acc.plan EXCEPT
                     !.untagged = @ + 1,
                     !.moves = Append(@,
                        [src |-> PathOf(Dir(RootOf(sourceFolder), <<>>, ci),
                                        fileName),
                         dest |-> PathOf(folder,
                                         uniquePath(d1, folder, fileName))])],
         disk |-> d1]

\* the body of the loop of lines 417-440 for one photo
PlanPhoto(acc, project, fileName, exportRoot, sourceFolder, ci) ==
    LET tags == IF fileName \in ImageNames(project.images)
                THEN ImageTags(project.images, fileName)
                ELSE <<>>
    IN  IF tags = <<>>
        THEN [acc EXCEPT !.plan.untagged = @ + 1]
        ELSE LET primaryFolder == Dir(exportRoot, safeTagToFolder(tags[1]), ci)
                 d1 == ensureDirSync(acc.disk, primaryFolder)
                 srcAbs == PathOf(Dir(RootOf(sourceFolder), <<>>, ci), fileName)
                 destPrimary ==
                     PathOf(primaryFolder, uniquePath(d1, primaryFolder, fileName))
                 a1 == [plan |-> [acc.plan EXCEPT
                                    !.tagged = @ + 1,
                                    !.moves = Append(@, [src |-> srcAbs,
                                                         dest |-> destPrimary])],
                        disk |-> d1]
                 a2 == PlanLinks(a1, tags, 2, fileName, destPrimary,
                                 exportRoot, ci)
             IN  [a2 EXCEPT !.plan.perTag = BumpPerTags(@, tags)]

RECURSIVE PlanPhotos(_, _, _, _, _, _)
PlanPhotos(acc, project, fileNames, exportRoot, sourceFolder, ci) ==
    IF fileNames = <<>> THEN acc
    ELSE PlanPhotos(PlanPhoto(acc, project, Head(fileNames), exportRoot,
                              sourceFolder, ci),
                    project, Tail(fileNames), exportRoot, sourceFolder, ci)

\* hasStore: projectManager is set
buildExportPlan(disk, hasStore, project, photos, exportRoot, sourceFolder, ci) ==
    IF ~hasStore \/ project.kind # "object"
    THEN [threw |-> FALSE, plan |-> EmptyPlan, disk |-> disk]
    ELSE IF photos # <<>> /\ ~project.hasImages
    THEN [threw |-> TRUE, plan |-> EmptyPlan, disk |-> disk]
    ELSE LET r == PlanPhotos(
                    [plan |-> [EmptyPlan EXCEPT !.total = Len(photos)],
                     disk |-> disk],
                    project, photos, exportRoot, sourceFolder, ci)
         IN  [threw |-> FALSE, plan |-> r.plan, disk |-> r.disk]

(***************************************************************************)
(* Export execution: the two loops of export-execute.  A throwing item     *)
(* ends the handler: [threw, disk, log], log the file operations that were *)
(* attempted, in the order of their calls.                                 *)
(***************************************************************************)

\* one call of moveWithFallbackSync or of linkOrCopySync
Attempt(kind, item, threw) ==
    [kind |-> kind, src |-> item.src, dest |-> item.dest, threw |-> threw]

RECURSIVE ExecuteMoves(_, _)
ExecuteMoves(disk, moves) ==
    IF moves = <<>> THEN [threw |-> FALSE, disk |-> disk, log |-> <<>>]
    ELSE LET m == Head(moves)
             r == moveWithFallbackSync(ensureDirSync(disk, m.dest.dir),
                                       m.src, m.dest)
         IN  IF r.threw
             THEN [threw |-> TRUE, disk |-> r.disk,
                   log |-> <<Attempt("move", m, TRUE)>>]
             ELSE [ExecuteMoves(r.disk, Tail(moves)) EXCEPT
                     !.log = <<Attempt("move", m, FALSE)>> \o @]

RECURSIVE ExecuteLinks(_, _)
ExecuteLinks(disk, links) ==
    IF links = <<>> THEN [threw |-> FALSE, disk |-> disk, log |-> <<>>]
    ELSE LET l == Head(links)
             r == linkOrCopySync(ensureDirSync(disk, l.dest.dir),
                                 l.src, l.dest)
         IN  IF r.threw
             THEN [threw |-> TRUE, disk |-> r.disk,
                   log |-> <<Attempt("link", l, TRUE)>>]
             ELSE [ExecuteLinks(r.disk, Tail(links)) EXCEPT
                     !.log = <<Attempt("link", l, FALSE)>> \o @]

\* The links are made first, the moves after them.
ExecutePlanLinksFirst(disk, plan) ==
    LET l == ExecuteLinks(disk, plan.links)
    IN  IF l.threw THEN l
        ELSE [ExecuteMoves(l.disk, plan.moves) EXCEPT !.log = l.log \o @]

ExecutePlan(disk, plan) ==
    LET m == ExecuteMoves(disk, plan.moves)
    IN  IF m.threw THEN m
        ELSE [ExecuteLinks(m.disk, plan.links) EXCEPT !.log = m.log \o @]

(***************************************************************************)
(* Revert: the loops of revert-export over project.images and              *)
(* project.tags; acc is [disk, restored, removed].                         *)
(***************************************************************************)

\* the loop of lines 511-519 over the secondary tags of one image
RECURSIVE RevertSecondary(_, _, _, _, _, _)
RevertSecondary(acc, tags, i, fileName, sourceFolder, ci) ==
    IF i > Len(tags) THEN acc
    ELSE LET p == PathOf(Dir(RootOf(sourceFolder), safeTagToFolder(tags[i]),
                             ci),
                         fileName)
         IN  RevertSecondary(
               IF existsSync(acc.disk, p)
               THEN [acc EXCEPT !.disk = tryUnlink(acc.disk, p),
                                !.removed = @ + 1]
               ELSE acc,
               tags, i + 1, fileName, sourceFolder, ci)

\* The primary file is counted as restored without a look at whether it
\* is where the export put it.
RevertImageUnchecked(acc, entry, sourceFolder, ci) ==
    IF entry.tags = <<>> THEN acc
    ELSE RevertSecondary([acc EXCEPT !.restored = @ + 1], entry.tags, 2,
                         entry.name, sourceFolder, ci)

\* the body of the loop of lines 500-520 for one image entry
RevertImage(acc, entry, sourceFolder, ci) ==
    IF entry.tags = <<>> THEN acc
    ELSE LET root == Dir(RootOf(sourceFolder), <<>>, ci)
             primaryPath ==
                 PathOf(Dir(RootOf(sourceFolder),
                            safeTagToFolder(entry.tags[1]), ci),
                        entry.name)
             a1 == IF existsSync(acc.disk, primaryPath)
                   THEN [acc EXCEPT
                           !.disk = moveWithFallbackSync(
                                      acc.disk, primaryPath,
                                      PathOf(root, uniquePath(acc.disk, root,
                                                              entry.name))).disk,
                           !.restored = @ + 1]
                   ELSE acc
         IN  RevertSecondary(a1, entry.tags, 2, entry.name, sourceFolder, ci)

RECURSIVE RevertImages(_, _, _, _)
RevertImages(acc, images, sourceFolder, ci) ==
    IF images = <<>> THEN acc
    ELSE RevertImages(RevertImage(acc, Head(images), sourceFolder, ci),
                      Tail(images), sourceFolder, ci)

\* the loop of lines 524-527 over the global tag list
RECURSIVE RemoveTagDirs(_, _, _, _)
RemoveTagDirs(disk, tags, sourceFolder, ci) ==
    IF tags = <<>> THEN disk
    ELSE RemoveTagDirs(
           tryRmDirRecursive(disk, Dir(RootOf(sourceFolder),
                                       safeTagToFolder(Head(tags)), ci)),
           Tail(tags), sourceFolder, ci)

\* lines 494-527 of revert-export: [disk, restored, removed]
RevertFiles(disk, project, sourceFolder, ci) ==
    LET a == IF project.kind = "object" /\ project.hasImages
             THEN RevertImages([disk |-> disk, restored |-> 0, removed |-> 0],
                               project.images, sourceFolder, ci)
             ELSE [disk |-> disk, restored |-> 0, removed |-> 0]
        tags == IF project.kind = "object" /\ project.hasTags
                THEN project.tags ELSE <<>>
    IN  [a EXCEPT !.disk = RemoveTagDirs(a.disk, tags, sourceFolder, ci)]

\* lines 530-532 of revert-export: project.json, backups and the directory
RemoveProjectDir(pfs, writable) == IF writable THEN NoProjectDir ELSE pfs

(***************************************************************************)
(* State                                                                   *)
(***************************************************************************)

VARIABLES
    sourceFolder,     \* "" until a folder is selected, then "src"
    photos,           \* the scanned photo list, as file names
    photosDir,        \* the folder that the paths of photos lie in
    store,            \* projectManager: [exists, project, saveTimer]
    hasStats,         \* statsManager is set
    timers,           \* the pending timers of setTimeout
    response,         \* what the last request returned
    disk,             \* photo files and folders
    pfs,              \* the project directory
    writable,         \* the project directory can be written
    caseInsensitive,  \* the filesystem ignores case in names
    requests,         \* number of requests served so far
    pc,               \* position of the write in progress inside #atomicWrite
    writing,          \* the contents that write was called with
    selecting,        \* the select-source-folder that awaits orderPhotos
    bdir,             \* the backups directory file by file, and the clock
    stats             \* statsManager.stats: total and duplicates

vars == <<sourceFolder, photos, photosDir, store, hasStats, timers, response,
          disk, pfs, writable, caseInsensitive, requests, pc, writing,
          selecting, bdir, stats>>

memVars == <<sourceFolder, photos, photosDir, store, hasStats>>

awVars == <<pc, writing, bdir, stats>>

(***************************************************************************)
(* Bounds and inputs                                                       *)
(***************************************************************************)

\* requests served in one run
MaxRequests == 5

\* the largest step of time, in ms
TickMs == 250

Yes == <<"Y", "e", "s">>

yesLower == <<"y", "e", "s">>

Maybe == <<"M", "a", "y", "b", "e">>

Img1 == FileNameOf("img001")

Img2 == FileNameOf("img002")

PhotoNames == {Img1, Img2}

\* the [fileName, tag] payloads of the tag requests
TagPayloads ==
    { <<Img1, RawString(Yes)>>, <<Img1, RawString(Maybe)>>,
      <<Img2, RawString(yesLower)>> }

RemovePayloads == { <<Img1, RawString(yesLower)>> }

\* exportRootArg: none given, or another folder
ExportRootArgs == {"", "alt"}

SrcRoot(ci) == Dir("src", <<>>, ci)

\* The source folder at the start: two photos, and a folder Maybe of the
\* user's own that holds a file of theirs.
InitialDisk(ci) ==
    [dirs |-> {SrcRoot(ci), Dir("src", Maybe, ci)},
     files |-> {[dir |-> SrcRoot(ci), name |-> Img1, data |-> "photo1",
                 ino |-> 1],
                [dir |-> SrcRoot(ci), name |-> Img2, data |-> "photo2",
                 ino |-> 2],
                [dir |-> Dir("src", Maybe, ci), name |-> FileNameOf("notes"),
                 data |-> "user", ino |-> 3]},
     hardLinks |-> TRUE]

\* projectManager: root is its rootDirectory
NoStore ==
    [exists |-> FALSE, root |-> "", project |-> NullProject,
     saveTimer |-> NoTimer]

\* no select-source-folder is in progress
NotSelecting == [pc |-> "idle", scanned |-> <<>>]

\* The project file and its backups with their names and times: now is the
\* clock, file the version of project.json (0 when there is none), usable
\* says that files can be created in the backups directory, backups is the
\* set of project-<stamp>.json files as [stamp, mtime, data].
NoBackups == [now |-> 0, file |-> 0, usable |-> TRUE, backups |-> {}]

\* this.stats of the constructor of StatsManager, without the counts by
\* category
NoStats == [total |-> 0, duplicates |-> <<>>]

\* What a request was called with: the payload of a tag request, the
\* exportRootArg of an export request.
NoArg == [file |-> FileNameOf(""), tag |-> NotAString, root |-> ""]

TagArg(fileName, rawTag) == [file |-> fileName, tag |-> rawTag, root |-> ""]

RootArg(arg) == [file |-> FileNameOf(""), tag |-> NotAString, root |-> arg]

\* The last request and what it returned.  ok is FALSE when the handler
\* ended in its catch block; tags is the returned tag list; n1 and n2 are
\* the two counts of the result (moved and linked, restored and removed);
\* plan is the plan an export request built, log the file operations that
\* export-execute attempted.
Reply(op, arg, ok, tags, n1, n2) ==
    [op |-> op, arg |-> arg, ok |-> ok, tags |-> tags, n1 |-> n1, n2 |-> n2,
     plan |-> EmptyPlan, log |-> <<>>]

ExportReply(op, arg, ok, plan, log) ==
    [Reply(op, RootArg(arg), ok, <<>>,
           IF ok THEN Len(plan.moves) ELSE 0,
           IF ok THEN Len(plan.links) ELSE 0)
       EXCEPT !.plan = plan, !.log = log]

NoResponse == Reply("none", NoArg, TRUE, <<>>, 0, 0)

(***************************************************************************)
(* The scan of select-source-folder.  The files of the model carry the     *)
(* same capture time and modification time, so that orderPhotos orders     *)
(* them by name.                                                           *)
(***************************************************************************)

ImageBases == <<"img001", "img002">>

IsImage(name) == \E i \in 1..Len(ImageBases) : ImageBases[i] = name.base

BaseRank(name) == CHOOSE i \in 1..Len(ImageBases) : ImageBases[i] = name.base

RECURSIVE SfxBefore(_, _)
SfxBefore(a, b) ==
    IF a = <<>> THEN b # <<>>
    ELSE IF b = <<>> THEN FALSE
    ELSE IF Head(a) # Head(b) THEN Head(a) < Head(b)
    ELSE SfxBefore(Tail(a), Tail(b))

NameBefore(a, b) ==
    \/ BaseRank(a) < BaseRank(b)
    \/ BaseRank(a) = BaseRank(b) /\ SfxBefore(a.sfx, b.sfx)

RECURSIVE SortNames(_)
SortNames(S) ==
    IF S = {} THEN <<>>
    ELSE LET first == CHOOSE a \in S : \A b \in S \ {a} : NameBefore(a, b)
         IN  <<first>> \o SortNames(S \ {first})

\* getImageFiles(sourceFolder), then orderPhotos
ScanPhotos(d, ci) ==
    SortNames({ f.name : f \in { g \in d.files :
                                   g.dir = SrcRoot(ci) /\ IsImage(g.name) } })

(***************************************************************************)
(* Requests of the main process                                            *)
(***************************************************************************)

\* every request counts towards the bound of the run
Served == requests < MaxRequests /\ requests' = requests + 1

Orphaned(ts) == [i \in 1..Len(ts) |-> [ts[i] EXCEPT !.mine = FALSE]]

\* select-source-folder, the dialog not cancelled
SelectSourceFolder ==
    \E stampTaken \in BOOLEAN, scanned \in {ScanPhotos(disk, caseInsensitive)} :
        \E r \in {loadOrCreate(pfs, scanned, writable, stampTaken)} :
            /\ Served
            /\ sourceFolder' = "src"
            /\ photos' = scanned
            /\ photosDir' = "src"
            /\ store' = [exists |-> TRUE, root |-> "src", project |-> r.project,
                         saveTimer |-> NoTimer]
            /\ hasStats' = TRUE
            /\ timers' = Orphaned(timers)
            /\ pfs' = r.pfs
            /\ response' = Reply("select-source-folder", NoArg, TRUE, <<>>,
                                 Len(scanned), 0)
            /\ UNCHANGED <<disk, writable, caseInsensitive, awVars, selecting>>

\* !payload.tag
Falsy(rawTag) == rawTag.isString /\ rawTag.chars = <<>>

\* The common body of add-photo-tag and remove-photo-tag: m is the result
\* of addTag or removeTag.  statsManager has no updateFromProject method, so
\* that the call of it throws when statsManager is set.
TagRequest(op, fileName, rawTag, m) ==
    /\ Served
    /\ IF ~store.exists \/ Falsy(rawTag)
       THEN /\ response' = Reply(op, TagArg(fileName, rawTag), TRUE, <<>>, 0, 0)
            /\ UNCHANGED <<store, pfs, timers>>
       ELSE IF m.threw
       THEN /\ response' = Reply(op, TagArg(fileName, rawTag), FALSE, <<>>, 0, 0)
            /\ UNCHANGED <<store, pfs, timers>>
       ELSE \E sv \in {save(m.project, pfs, timers, store.saveTimer, writable)} :
                /\ store' = [store EXCEPT !.project = sv.project,
                                          !.saveTimer = sv.saveTimer]
                /\ pfs' = sv.pfs
                /\ timers' = sv.timers
                /\ response' =
                     IF sv.threw \/ hasStats
                     THEN Reply(op, TagArg(fileName, rawTag), FALSE, <<>>, 0, 0)
                     ELSE Reply(op, TagArg(fileName, rawTag), TRUE,
                                getTags(sv.project, fileName).tags, 0, 0)
    /\ UNCHANGED <<sourceFolder, photos, photosDir, hasStats, disk, writable,
                   caseInsensitive, awVars, selecting>>

AddPhotoTag(fileName, rawTag) ==
    TagRequest("add-photo-tag", fileName, rawTag,
               addTag(store.project, fileName, rawTag))

RemovePhotoTag(fileName, rawTag) ==
    TagRequest("remove-photo-tag", fileName, rawTag,
               removeTag(store.project, fileName, rawTag))

\* exportRootArg && typeof exportRootArg === 'string' ? exportRootArg : sourceFolder
ExportRootOf(arg) == IF arg # "" THEN arg ELSE sourceFolder

ExportDryRun(arg) ==
    \E exportRoot \in {ExportRootOf(arg)} :
    \E d0 \in {ensureDirSync(disk, Dir(exportRoot, <<>>, caseInsensitive))} :
    \E b \in {buildExportPlan(d0, store.exists, store.project, photos,
                               exportRoot, sourceFolder, caseInsensitive)} :
        /\ Served
        /\ IF exportRoot = "" \/ b.threw
           THEN /\ response' = ExportReply("export-dry-run", arg, FALSE,
                                           EmptyPlan, <<>>)
                /\ disk' = IF exportRoot = "" THEN disk ELSE d0
           ELSE /\ response' = ExportReply("export-dry-run", arg, TRUE,
                                           b.plan, <<>>)
                /\ disk' = b.disk
        /\ UNCHANGED <<memVars, timers, pfs, writable, caseInsensitive,
                       awVars, selecting>>

ExportExecute(arg) ==
    \E exportRoot \in {ExportRootOf(arg)} :
    \E b \in {buildExportPlan(disk, store.exists, store.project, photos,
                               exportRoot, sourceFolder, caseInsensitive)} :
    \E x \in {ExecutePlan(b.disk, b.plan)} :
        /\ Served
        /\ IF b.threw
           THEN /\ response' = ExportReply("export-execute", arg, FALSE,
                                           EmptyPlan, <<>>)
                /\ disk' = b.disk
           ELSE /\ response' = ExportReply("export-execute", arg, ~x.threw,
                                           b.plan, x.log)
                /\ disk' = x.disk
        /\ UNCHANGED <<memVars, timers, pfs, writable, caseInsensitive,
                       awVars, selecting>>

RevertExport ==
    \E stampTaken \in BOOLEAN :
        \E l \in {IF store.exists
                   THEN [project |-> store.project, pfs |-> pfs]
                   ELSE loadOrCreate(pfs, <<>>, writable, stampTaken)} :
        \E r \in {RevertFiles(disk, l.project, sourceFolder,
                                caseInsensitive)} :
            /\ Served
            /\ store' = IF store.exists THEN store
                        ELSE [exists |-> TRUE, root |-> RootOf(sourceFolder),
                              project |-> l.project,
                              saveTimer |-> NoTimer]
            /\ disk' = r.disk
            /\ pfs' = RemoveProjectDir(l.pfs, writable)
            /\ response' = Reply("revert-export", NoArg, TRUE, <<>>,
                                 r.restored, r.removed)
            /\ UNCHANGED <<sourceFolder, photos, photosDir, hasStats, timers, writable,
                           caseInsensitive, awVars, selecting>>

(***************************************************************************)
(* The timer callback of #scheduleSave, time, and the end of the process   *)
(***************************************************************************)

\* The callback of the timer that is due: the write, then
\* this.#saveTimer = null in the store that set the timer.
SaveTimerFires ==
    /\ timers # <<>>
    /\ Head(timers).remaining = 0
    /\ \E stampTaken \in BOOLEAN, t \in {Head(timers)} :
        \E w \in {atomicWrite(pfs, t.contents, writable, stampTaken)} :
            /\ pfs' = w.pfs
            /\ timers' = Tail(timers)
            /\ store' = IF t.mine THEN [store EXCEPT !.saveTimer = NoTimer]
                        ELSE store
    /\ UNCHANGED <<sourceFolder, photos, photosDir, hasStats, response, disk, writable,
                   caseInsensitive, requests, awVars, selecting>>

Min(a, b) == IF a < b THEN a ELSE b

\* Time passes, no further than to the moment the next timer is due.
Tick ==
    /\ timers # <<>>
    /\ Head(timers).remaining > 0
    /\ LET d == Min(TickMs, Head(timers).remaining)
       IN  timers' = [i \in 1..Len(timers) |->
                        [timers[i] EXCEPT !.remaining = @ - d]]
    /\ UNCHANGED <<memVars, response, disk, pfs, writable, caseInsensitive,
                   requests, awVars, selecting>>

\* The process ends and is started again: memory and timers are gone.
Relaunch ==
    /\ Served
    /\ sourceFolder' = ""
    /\ photos' = <<>>
    /\ photosDir' = ""
    /\ store' = NoStore
    /\ hasStats' = FALSE
    /\ timers' = <<>>
    /\ response' = Reply("relaunch", NoArg, TRUE, <<>>, 0, 0)
    /\ selecting' = NotSelecting
    /\ UNCHANGED <<disk, pfs, writable, caseInsensitive, awVars>>

NoWrite == [contents |-> AbsentFile, before |-> AbsentFile]

Init ==
    /\ sourceFolder = ""
    /\ photos = <<>>
    /\ photosDir = ""
    /\ store = NoStore
    /\ hasStats = FALSE
    /\ timers = <<>>
    /\ response = NoResponse
    /\ caseInsensitive \in BOOLEAN
    /\ disk = InitialDisk(caseInsensitive)
    /\ pfs = NoProjectDir
    /\ writable = TRUE
    /\ requests = 0
    /\ pc = "idle"
    /\ writing = NoWrite
    /\ selecting = NotSelecting
    /\ bdir = NoBackups
    /\ stats = NoStats

Next ==
    \/ SelectSourceFolder
    \/ \E p \in TagPayloads : AddPhotoTag(p[1], p[2])
    \/ \E p \in RemovePayloads : RemovePhotoTag(p[1], p[2])
    \/ \E a \in ExportRootArgs : ExportDryRun(a)
    \/ \E a \in ExportRootArgs : ExportExecute(a)
    \/ RevertExport
    \/ SaveTimerFires
    \/ Tick
    \/ Relaunch

Spec == Init /\ [][Next]_vars

\* The event loop runs a due timer callback, and time does not stop.
FairSpec == Spec /\ WF_vars(Tick) /\ WF_vars(SaveTimerFires)

(***************************************************************************)
(* #atomicWrite step by step, and a process that can stop between any two  *)
(* of its file system calls.  pc is the call that comes next; writing is   *)
(* [contents, before]: what the write in progress (or the last one) was    *)
(* called with, and project.json as it was when the write was called.      *)
(***************************************************************************)

\* a project that holds one photo and its tags
ProjectOf(fileName, tags) ==
    [kind |-> "object", hasImages |-> TRUE,
     images |-> <<[name |-> fileName, tags |-> tags]>>,
     hasTags |-> TRUE, tags |-> tags]

\* the documents that are written
AwContents ==
    { JSONstringify(newProject), JSONstringify(ProjectOf(Img1, <<>>)),
      JSONstringify(ProjectOf(Img1, <<Yes>>)) }

\* the project directories a write can find
AwInitialDirs ==
    {NoProjectDir}
    \cup { [dirExists |-> TRUE, file |-> f, tmp |-> t, backupsDir |-> n > 0,
            backups |-> n] :
           f \in AwContents \cup {AbsentFile, GarbageFile},
           t \in {AbsentFile, PartialFile}, n \in {0, MAX} }

InitAw ==
    /\ sourceFolder = ""
    /\ photos = <<>>
    /\ photosDir = ""
    /\ store = NoStore
    /\ hasStats = FALSE
    /\ timers = <<>>
    /\ response = NoResponse
    /\ caseInsensitive = FALSE
    /\ disk = InitialDisk(FALSE)
    /\ pfs \in AwInitialDirs
    /\ writable \in BOOLEAN
    /\ requests = 0
    /\ pc = "idle"
    /\ writing = NoWrite
    /\ selecting = NotSelecting
    /\ bdir = NoBackups
    /\ stats = NoStats

appVars ==
    <<sourceFolder, photos, photosDir, store, hasStats, timers, response,
      disk, caseInsensitive, selecting, bdir, stats>>

\* #atomicWrite(targetPath, contents) is called
AwCall(contents) ==
    /\ pc \in {"idle", "stopped"}
    /\ Served
    /\ pc' = "backup"
    /\ writing' = [contents |-> contents, before |-> pfs.file]
    /\ UNCHANGED <<appVars, pfs, writable>>

\* lines 112-116
AwMkdirBackups ==
    /\ pc = "backup"
    /\ IF BackupSkipped(pfs, writable)
       THEN pc' = "open" /\ pfs' = pfs
       ELSE pc' = "copy" /\ pfs' = atomicWriteMkdirBackups(pfs)
    /\ UNCHANGED <<appVars, writable, requests, writing>>

\* lines 117-119
AwCopyBackup ==
    /\ pc = "copy"
    /\ \E stampTaken \in BOOLEAN : pfs' = atomicWriteCopyBackup(pfs, stampTaken)
    /\ pc' = "trim"
    /\ UNCHANGED <<appVars, writable, requests, writing>>

\* lines 120-128
AwTrimBackups ==
    /\ pc = "trim"
    /\ pfs' = atomicWriteTrimBackups(pfs)
    /\ pc' = "open"
    /\ UNCHANGED <<appVars, writable, requests, writing>>

\* line 134, the file is opened: it exists and is empty, or the call throws
AwOpenTmp ==
    /\ pc = "open"
    /\ IF WriteFails(pfs, writable)
       THEN pc' = "idle" /\ pfs' = pfs
       ELSE pc' = "fill" /\ pfs' = atomicWriteOpenTmp(pfs)
    /\ UNCHANGED <<appVars, writable, requests, writing>>

\* line 134, the bytes are written
AwFillTmp ==
    /\ pc = "fill"
    /\ pfs' = atomicWriteFillTmp(pfs, writing.contents)
    /\ pc' = "rename"
    /\ UNCHANGED <<appVars, writable, requests, writing>>

\* line 135
AwRename ==
    /\ pc = "rename"
    /\ pfs' = atomicWriteRename(pfs)
    /\ pc' = "idle"
    /\ UNCHANGED <<appVars, writable, requests, writing>>

\* The process is stopped in the middle of the write.
AwInterrupted ==
    /\ pc \notin {"idle", "stopped"}
    /\ pc' = "stopped"
    /\ UNCHANGED <<appVars, pfs, writable, requests, writing>>

NextAw ==
    \/ \E c \in AwContents : AwCall(c)
    \/ AwMkdirBackups
    \/ AwCopyBackup
    \/ AwTrimBackups
    \/ AwOpenTmp
    \/ AwFillTmp
    \/ AwRename
    \/ AwInterrupted

SpecAtomicWrite == InitAw /\ [][NextAw]_vars

\* C3: at every moment of an atomic write, and after the process was
\* stopped at any step of it, project.json is no partially written file: it
\* is what it was when the write was called (absent, or the complete
\* previous content) or it is the complete new content; and the rename is
\* the only step that changes project.json, to the new content.
C3_AtomicWriteNeverPartial ==
    /\ [](/\ pfs.file.kind # "partial"
          /\ writing # NoWrite => pfs.file \in {writing.before, writing.contents}
          /\ pc \notin {"idle", "stopped"} => pfs.file = writing.before)
    /\ [][pfs'.file # pfs.file =>
            /\ pc = "rename"
            /\ pc' = "idle"
            /\ pfs'.file = writing.contents]_vars

\* The process was stopped right after the temporary file was written, over
\* a project.json of other content.
C3_Witness ==
    /\ pc = "stopped"
    /\ pfs.tmp = writing.contents
    /\ writing.before.kind = "json"
    /\ writing.before # writing.contents
    /\ pfs.file = writing.before

(***************************************************************************)
(* ProjectManager on its own: one store, called through its public         *)
(* methods in any order, over a project directory found in any state, on a *)
(* root that can turn read-only and back.                                  *)
(***************************************************************************)

\* {} and {"images": {}}: JSON objects that are no complete project
EmptyObject ==
    [kind |-> "object", hasImages |-> FALSE, images |-> <<>>,
     hasTags |-> FALSE, tags |-> <<>>]

ImagesOnlyObject ==
    [kind |-> "object", hasImages |-> TRUE, images |-> <<>>,
     hasTags |-> FALSE, tags |-> <<>>]

DirWith(file) ==
    [dirExists |-> TRUE, file |-> file, tmp |-> AbsentFile,
     backupsDir |-> FALSE, backups |-> 0]

\* the project directories a store can find
StoreInitialDirs ==
    { NoProjectDir, DirWith(AbsentFile), DirWith(GarbageFile),
      DirWith(JSONstringify(ScalarJson)), DirWith(JSONstringify(EmptyObject)),
      DirWith(JSONstringify(ImagesOnlyObject)),
      DirWith(JSONstringify(ProjectOf(Img1, <<Yes>>))) }

\* " yes<TAB>", which normalizes to "yes"
yesPadded == <<" ", "y", "e", "s", "\t">>

\* the [fileName, rawTag] arguments of addTag and of removeTag
StoreAdditions ==
    { <<Img1, RawString(Yes)>>, <<Img1, RawString(yesPadded)>>,
      <<Img1, RawString(Maybe)>>, <<Img1, NotAString>>,
      <<Img2, RawString(yesPadded)>> }

StoreRemovals == { <<Img1, RawString(yesPadded)>>, <<Img2, NotAString>> }

StoreFileLists == { <<>>, <<Img1, Img2>> }

InitStore ==
    /\ sourceFolder = "src"
    /\ photos = <<>>
    /\ photosDir = ""
    /\ store = [exists |-> TRUE, root |-> "src", project |-> NullProject,
                saveTimer |-> NoTimer]
    /\ hasStats = FALSE
    /\ timers = <<>>
    /\ response = NoResponse
    /\ caseInsensitive = FALSE
    /\ disk = InitialDisk(FALSE)
    /\ pfs \in StoreInitialDirs
    /\ writable \in BOOLEAN
    /\ requests = 0
    /\ pc = "idle"
    /\ writing = NoWrite
    /\ selecting = NotSelecting
    /\ bdir = NoBackups
    /\ stats = NoStats

storeFrame ==
    <<sourceFolder, photos, photosDir, hasStats, disk, caseInsensitive, awVars,
      selecting>>

CallLoadOrCreate(initialImagePaths) ==
    \E stampTaken \in BOOLEAN :
    \E r \in {loadOrCreate(pfs, initialImagePaths, writable, stampTaken)} :
        /\ Served
        /\ store' = [store EXCEPT !.project = r.project]
        /\ pfs' = r.pfs
        /\ response' = Reply("loadOrCreate", NoArg, TRUE, <<>>,
                             Len(initialImagePaths), 0)
        /\ UNCHANGED <<storeFrame, timers, writable>>

\* addTag or removeTag: m is what the method does to the project
CallMutator(op, fileName, rawTag, m) ==
    /\ Served
    /\ store' = [store EXCEPT !.project = m.project]
    /\ response' = Reply(op, TagArg(fileName, rawTag), ~m.threw, <<>>, 0, 0)
    /\ UNCHANGED <<storeFrame, timers, pfs, writable>>

CallAddTag(fileName, rawTag) ==
    CallMutator("addTag", fileName, rawTag,
                addTag(store.project, fileName, rawTag))

CallRemoveTag(fileName, rawTag) ==
    CallMutator("removeTag", fileName, rawTag,
                removeTag(store.project, fileName, rawTag))

CallGetTags(fileName) ==
    \E g \in {getTags(store.project, fileName)} :
        /\ Served
        /\ response' = Reply("getTags", TagArg(fileName, NotAString), ~g.threw,
                             g.tags, 0, 0)
        /\ UNCHANGED <<storeFrame, store, timers, pfs, writable>>

\* save().  The reply counts the timers the call cancelled, and tells how
\* long the cancelled timer still had to run.
CallSave ==
    \E sv \in {save(store.project, pfs, timers, store.saveTimer, writable)} :
        /\ Served
        /\ store' = [store EXCEPT !.project = sv.project,
                                  !.saveTimer = sv.saveTimer]
        /\ pfs' = sv.pfs
        /\ timers' = sv.timers
        /\ response' =
             Reply("save", NoArg, ~sv.threw, <<>>,
                   IF sv.threw THEN 0 ELSE Len(timers) + 1 - Len(sv.timers),
                   IF sv.threw \/ timers = <<>> THEN 0
                   ELSE Head(timers).remaining)
        /\ UNCHANGED <<storeFrame, writable>>

\* The root turns read-only, or writable again.
Chmod ==
    /\ writable' = ~writable
    /\ UNCHANGED <<storeFrame, store, timers, response, pfs, requests>>

NextStore ==
    \/ \E l \in StoreFileLists : CallLoadOrCreate(l)
    \/ \E p \in StoreAdditions : CallAddTag(p[1], p[2])
    \/ \E p \in StoreRemovals : CallRemoveTag(p[1], p[2])
    \/ CallGetTags(Img1)
    \/ CallSave
    \/ SaveTimerFires
    \/ Tick
    \/ Chmod

SpecStore == InitStore /\ [][NextStore]_vars

NoTwoEqualIgnoringCase(tags) ==
    \A i, j \in 1..Len(tags) :
        toLowerCase(tags[i]) = toLowerCase(tags[j]) => i = j

KnownIgnoringCase(tags, t) ==
    \E i \in 1..Len(tags) : toLowerCase(tags[i]) = toLowerCase(t)

TagsOf(project, fileName) ==
    IF fileName \in ImageNames(project.images)
    THEN ImageTags(project.images, fileName)
    ELSE <<>>

\* a call of addTag that returned
AddTagReturned ==
    /\ requests' = requests + 1
    /\ response'.op = "addTag"
    /\ response'.ok

\* C4: after any sequence of addTag and removeTag calls, neither the tag
\* list of a photo nor the global tag list holds two entries that are equal
\* ignoring case; and an addTag of a tag that the photo (the global list)
\* already holds under any casing leaves that list as it is, so that the
\* casing of the first one added stays, while a tag that is new to the list
\* is appended to it.
C4_TagsUniqueIgnoringCase ==
    /\ [](/\ NoTwoEqualIgnoringCase(store.project.tags)
          /\ \A i \in 1..Len(store.project.images) :
                NoTwoEqualIgnoringCase(store.project.images[i].tags))
    /\ [][AddTagReturned /\ normalizeTag(response'.arg.tag) # <<>> =>
            /\ TagsOf(store'.project, response'.arg.file) =
                 IF KnownIgnoringCase(TagsOf(store.project, response'.arg.file),
                                      normalizeTag(response'.arg.tag))
                 THEN TagsOf(store.project, response'.arg.file)
                 ELSE Append(TagsOf(store.project, response'.arg.file),
                             normalizeTag(response'.arg.tag))
            /\ store'.project.tags =
                 IF KnownIgnoringCase(store.project.tags,
                                      normalizeTag(response'.arg.tag))
                 THEN store.project.tags
                 ELSE Append(store.project.tags,
                             normalizeTag(response'.arg.tag))]_vars

\* " yes<TAB>" was added to a photo that held "Yes": it holds "Yes" alone.
C4_Witness ==
    /\ response.op = "addTag"
    /\ response.ok
    /\ response.arg = TagArg(Img1, RawString(yesPadded))
    /\ TagsOf(store.project, Img1) = <<Yes>>
    /\ store.project.tags = <<Yes>>

\* the file names of the images mapping of project.json
PersistedNames(dir) ==
    IF dir.file.kind = "json" /\ dir.file.doc.kind = "object"
    THEN ImageNames(dir.file.doc.images)
    ELSE {}

\* C5: no step removes a file name from the images mapping of the project
\* on disk; addTag, removeTag, save and the write of the save timer remove
\* none from the in-memory project; and loadOrCreate leaves every file name
\* of the project on disk in the in-memory project.
C5_ImagesMergeOnly ==
    [][/\ PersistedNames(pfs) \subseteq PersistedNames(pfs')
       /\ IF requests' = requests + 1 /\ response'.op = "loadOrCreate"
          THEN PersistedNames(pfs) \subseteq ImageNames(store'.project.images)
          ELSE ImageNames(store.project.images) \subseteq
                  ImageNames(store'.project.images)]_vars

\* C6: once loadOrCreate has returned, the project is an object with an
\* images mapping and a tags list, and no addTag, removeTag or getTags that
\* follows throws.
C6_LoadOrCreateLeavesValidProject ==
    /\ response.op = "loadOrCreate" =>
          /\ store.project.kind = "object"
          /\ store.project.hasImages
          /\ store.project.hasTags
    /\ store.project.kind # "null"
          /\ response.op \in {"addTag", "removeTag", "getTags"}
       => response.ok

\* the callback of the save timer ran
TimerFired == Len(timers') < Len(timers)

\* a call of save() that returned
SaveReturned ==
    /\ requests' = requests + 1
    /\ response'.op = "save"
    /\ response'.ok

\* C8 as the specification states it: what the timer callback writes is the
\* in-memory project as it is when the write happens.
C8_WritesStateAtWriteTime ==
    [][TimerFired /\ ~WriteFails(pfs, writable) =>
          pfs'.file = JSONstringify(store.project)]_vars

\* C8: a store has at most one timer pending; a call of save() cancels the
\* pending timer and sets one that is due DEBOUNCE_MS later and carries the
\* project as serialized by this call; what a timer carries does not change
\* while it is pending; the callback runs when the timer is due, leaves no
\* timer pending, and writes what the timer carries, which is the project
\* as it was at the last call of save(); and nothing else but loadOrCreate
\* writes project.json.
C8_DebouncedSaveCoalesces ==
    /\ [](/\ Len(timers) <= 1
          /\ store.saveTimer = NoTimer <=> timers = <<>>)
    /\ [][SaveReturned =>
            timers' = <<[id |-> store'.saveTimer, mine |-> TRUE,
                         remaining |-> DEBOUNCE_MS,
                         contents |-> JSONstringify(store'.project)]>>]_vars
    /\ [][timers # <<>> /\ timers' # <<>> /\ ~SaveReturned =>
            Head(timers').contents = Head(timers).contents]_vars
    /\ [][TimerFired =>
            /\ Head(timers).remaining = 0
            /\ timers' = <<>>
            /\ ~WriteFails(pfs, writable) => pfs'.file = Head(timers).contents]_vars
    /\ [][pfs'.file # pfs.file =>
            \/ TimerFired
            \/ requests' = requests + 1 /\ response'.op = "loadOrCreate"]_vars

\* A call of save() cancelled a timer that had time left to run, and the
\* timer it set is due: one write, of what this call serialized, is to come.
C8_Witness ==
    /\ response.op = "save"
    /\ response.ok
    /\ response.n1 = 1
    /\ response.n2 \in 1..(DEBOUNCE_MS - 1)
    /\ timers # <<>>
    /\ Head(timers).remaining = 0
    /\ pfs.file # Head(timers).contents
    /\ ~WriteFails(pfs, writable)

IsPrefix(s, t) == Len(s) <= Len(t) /\ SubSeq(t, 1, Len(s)) = s

\* a call of removeTag that returned
RemoveTagReturned ==
    /\ requests' = requests + 1
    /\ response'.op = "removeTag"
    /\ response'.ok

\* the list without its first entry that equals t ignoring case
WithoutFirstMatch(tags, t) ==
    IF KnownIgnoringCase(tags, t)
    THEN LET i == CHOOSE k \in 1..Len(tags) :
                     /\ toLowerCase(tags[k]) = toLowerCase(t)
                     /\ \A j \in 1..(k - 1) :
                           toLowerCase(tags[j]) # toLowerCase(t)
         IN  [k \in 1..(Len(tags) - 1) |->
                 IF k < i THEN tags[k] ELSE tags[k + 1]]
    ELSE tags

\* C20: every call of addTag and of removeTag leaves the global tag list
\* with the list before the call as a prefix; removeTag leaves the global
\* list as it is, takes the first entry that equals the tag ignoring case
\* out of the list of that photo, and changes nothing else: it changes
\* nothing at all when the photo is unknown or does not hold the tag.
C20_GlobalTagsAppendOnly ==
    /\ [][AddTagReturned \/ RemoveTagReturned =>
            IsPrefix(store.project.tags, store'.project.tags)]_vars
    /\ [][RemoveTagReturned =>
            /\ store'.project.tags = store.project.tags
            /\ ImageNames(store'.project.images) =
                  ImageNames(store.project.images)
            /\ \A n \in ImageNames(store.project.images) :
                  TagsOf(store'.project, n) =
                    IF n = response'.arg.file
                    THEN WithoutFirstMatch(TagsOf(store.project, n),
                                           normalizeTag(response'.arg.tag))
                    ELSE TagsOf(store.project, n)
            /\ (\/ response'.arg.file \notin ImageNames(store.project.images)
                \/ ~KnownIgnoringCase(TagsOf(store.project, response'.arg.file),
                                      normalizeTag(response'.arg.tag)))
                  => store'.project = store.project]_vars

\* " yes<TAB>" was removed from a photo that held "Yes" and "Maybe": the
\* photo holds "Maybe", the global list still holds both.
C20_Witness ==
    /\ response.op = "removeTag"
    /\ response.ok
    /\ response.arg = TagArg(Img1, RawString(yesPadded))
    /\ TagsOf(store.project, Img1) = <<Maybe>>
    /\ store.project.tags = <<Yes, Maybe>>

(***************************************************************************)
(* Export, revert and the dry run                                          *)
(***************************************************************************)

Range(seq) == { seq[i] : i \in 1..Len(seq) }

\* every tag of the project: those of its photos and those of its global list
AllTags(project) ==
    UNION { Range(project.images[i].tags) : i \in 1..Len(project.images) }
    \cup Range(project.tags)

TagDirs(project, ci) ==
    { Dir("src", safeTagToFolder(t), ci) : t \in AllTags(project) }

\* the files of the user that are no photos of the project
UserFiles(d) == { f \in d.files : f.data = "user" }

\* a request of the given name was served
Handled(op) == requests' = requests + 1 /\ response'.op = op

\* revert-export is the request that follows an export-execute into the
\* root that went through, of a project whose tag folders held no file of
\* the user's
RevertFollowsExport ==
    /\ response.op = "export-execute"
    /\ response.ok
    /\ response.arg.root = ""
    /\ store.exists
    /\ \A f \in UserFiles(disk) : f.dir \notin TagDirs(store.project, caseInsensitive)
    /\ Handled("revert-export")

\* C1: export-execute into the root followed by revert-export leaves every
\* photo in the root under its original name and with its content, leaves no
\* folder of a tag of the project, and leaves no project file.
C1_ExportRevertRoundTrip ==
    [][RevertFollowsExport =>
          /\ \A g \in InitialDisk(caseInsensitive).files :
                g.dir = SrcRoot(caseInsensitive) => g \in disk'.files
          /\ \A f \in disk'.files :
                f.data # "user" => f \in InitialDisk(caseInsensitive).files
          /\ TagDirs(store.project, caseInsensitive) \cap disk'.dirs = {}
          /\ pfs'.file.kind = "absent"]_vars

\* C2: a file of the user's that export did not create is still there after
\* revert-export, also when it sits in a folder named after a tag.
C2_RevertKeepsUserFiles ==
    [][Handled("revert-export") => UserFiles(disk) \subseteq disk'.files]_vars

\* C7: when export-execute or revert-export is served while a save of the
\* store is pending, the pending write is done: no save timer of the store
\* is left, and project.json holds the in-memory project.
C7_ExportAndRevertFlush ==
    [][(Handled("export-execute") \/ Handled("revert-export"))
         /\ store.exists /\ store.saveTimer # NoTimer =>
            /\ store'.saveTimer = NoTimer
            /\ \A i \in 1..Len(timers') : ~timers'[i].mine]_vars

\* C10: export-dry-run leaves the files and directories as they are.
C10_DryRunMutatesNothing ==
    [][Handled("export-dry-run") => disk' = disk]_vars

(***************************************************************************)
(* Durability of a tag change                                              *)
(***************************************************************************)

\* the last request was a tag request that got past the guard of its handler
TagRequestServed ==
    /\ response.op \in {"add-photo-tag", "remove-photo-tag"}
    /\ store.exists
    /\ ~Falsy(response.arg.tag)

\* project.json holds the images and the tags of the in-memory project
Durable ==
    /\ pfs.file.kind = "json"
    /\ pfs.file.doc.images = store.project.images
    /\ pfs.file.doc.tags = store.project.tags

\* C9: once a tag request is served, the store holds the added tag for the
\* photo (no longer holds the removed one), at once and as long as no other
\* request follows; project.json comes to hold the images and tags of the
\* in-memory project, unless the folder is selected again, the export is
\* reverted or the process ends before; and the end of the process leaves
\* the project directory as the last write left it.
C9_EventualDurability ==
    /\ [](TagRequestServed /\ normalizeTag(response.arg.tag) # <<>> =>
            (response.op = "add-photo-tag") =
              KnownIgnoringCase(TagsOf(store.project, response.arg.file),
                                normalizeTag(response.arg.tag)))
    /\ TagRequestServed ~>
          \/ Durable
          \/ response.op \in {"select-source-folder", "revert-export",
                              "relaunch"}
    /\ [][Handled("relaunch") => pfs' = pfs]_vars

\* The tag was added half a second ago and the write has happened:
\* project.json holds it.
C9_Witness ==
    /\ response.op = "add-photo-tag"
    /\ response.arg = TagArg(Img1, RawString(Yes))
    /\ store.exists
    /\ timers = <<>>
    /\ Durable
    /\ TagsOf(pfs.file.doc, Img1) = <<Yes>>


(***************************************************************************)
(* What the tag requests return                                            *)
(***************************************************************************)

\* C17: a tag request on an open project with a non-empty tag returns the
\* tag list that the photo has once the change is applied.
C17_TagRequestReturnsTags ==
    TagRequestServed /\ normalizeTag(response.arg.tag) # <<>> =>
        response.tags = TagsOf(store.project, response.arg.file)

(***************************************************************************)
(* Writes of a store that was replaced                                     *)
(***************************************************************************)

\* C16: a timer callback that changes project.json is one that the current
\* store scheduled, never one of a store that select-source-folder has
\* replaced; what it writes is what the current store serialized.
C16_OneStoreIsSoleWriter ==
    [][TimerFired /\ pfs'.file # pfs.file => Head(timers).mine]_vars


(***************************************************************************)
(* The export pipeline on a folder that holds img001.jpg and img001_1.jpg, *)
(* and that may hold a folder Yes with an img001.jpg of an earlier export. *)
(***************************************************************************)

\* img001_1.jpg
Img1b == [base |-> "img001", sfx |-> <<1>>]

ExportPayloads ==
    { <<Img1, RawString(Yes)>>, <<Img1, RawString(Maybe)>>,
      <<Img1b, RawString(Yes)>> }

\* earlier: the folder Yes holds an img001.jpg already
ExportDisk(ci, earlier) ==
    [dirs |-> {SrcRoot(ci)}
              \cup (IF earlier THEN {Dir("src", Yes, ci)} ELSE {}),
     files |-> {[dir |-> SrcRoot(ci), name |-> Img1, data |-> "photo1",
                 ino |-> 1],
                [dir |-> SrcRoot(ci), name |-> Img1b, data |-> "photo2",
                 ino |-> 2]}
               \cup (IF earlier
                     THEN {[dir |-> Dir("src", Yes, ci), name |-> Img1,
                            data |-> "user", ino |-> 3]}
                     ELSE {}),
     hardLinks |-> TRUE]

InitExport ==
    /\ sourceFolder = ""
    /\ photos = <<>>
    /\ photosDir = ""
    /\ store = NoStore
    /\ hasStats = FALSE
    /\ timers = <<>>
    /\ response = NoResponse
    /\ caseInsensitive \in BOOLEAN
    /\ \E earlier \in BOOLEAN : disk = ExportDisk(caseInsensitive, earlier)
    /\ pfs = NoProjectDir
    /\ writable = TRUE
    /\ requests = 0
    /\ pc = "idle"
    /\ writing = NoWrite
    /\ selecting = NotSelecting
    /\ bdir = NoBackups
    /\ stats = NoStats

NextExport ==
    \/ SelectSourceFolder
    \/ \E p \in ExportPayloads : AddPhotoTag(p[1], p[2])
    \/ \E a \in ExportRootArgs : ExportDryRun(a)
    \/ \E a \in ExportRootArgs : ExportExecute(a)
    \/ RevertExport
    \/ SaveTimerFires
    \/ Tick

SpecExport == InitExport /\ [][NextExport]_vars

\* the photos of the list that have a tag, in the order of the list
TaggedPhotos(project, names) ==
    SelectSeq(names, LAMBDA n : TagsOf(project, n) # <<>>)

\* the number of secondary tags of the first k tagged photos
RECURSIVE SecondaryBefore(_, _, _)
SecondaryBefore(project, tagged, k) ==
    IF k = 0 THEN 0
    ELSE SecondaryBefore(project, tagged, k - 1)
         + Len(TagsOf(project, tagged[k])) - 1

\* the places <<k, i>> where tag t stands: photo k of the tagged ones, index i
Occurrences(project, tagged, t) ==
    { ki \in (1..Len(tagged)) \X (1..8) :
        /\ ki[2] <= Len(TagsOf(project, tagged[ki[1]]))
        /\ TagsOf(project, tagged[ki[1]])[ki[2]] = t }

\* The plan is the one that the project, the photo list and the roots give:
\* counts, one move per tagged photo from the root into the folder of its
\* first tag, one link per further tag from the destination of that move
\* into the folder of the tag, and one count per tag.
PlanIsDerivedFrom(plan, project, names, exportRoot, root, ci) ==
    LET tagged == TaggedPhotos(project, names)
    IN  /\ plan.total = Len(names)
        /\ plan.tagged = Len(tagged)
        /\ plan.untagged = Len(names) - Len(tagged)
        /\ plan.total = plan.tagged + plan.untagged
        /\ Len(plan.moves) = Len(tagged)
        /\ \A k \in 1..Len(tagged) :
              /\ plan.moves[k].src = PathOf(Dir(root, <<>>, ci), tagged[k])
              /\ plan.moves[k].dest.dir =
                    Dir(exportRoot,
                        safeTagToFolder(TagsOf(project, tagged[k])[1]), ci)
              /\ plan.moves[k].dest.name.base = tagged[k].base
        /\ Len(plan.links) = SecondaryBefore(project, tagged, Len(tagged))
        /\ \A k \in 1..Len(tagged) :
              \A i \in 2..Len(TagsOf(project, tagged[k])) :
                LET l == plan.links[SecondaryBefore(project, tagged, k - 1)
                                    + i - 1]
                IN  /\ l.src = plan.moves[k].dest
                    /\ l.dest.dir =
                          Dir(exportRoot,
                              safeTagToFolder(TagsOf(project, tagged[k])[i]),
                              ci)
                    /\ l.dest.name.base = tagged[k].base
        /\ \A a, b \in 1..Len(plan.perTag) :
              plan.perTag[a].tag = plan.perTag[b].tag => a = b
        /\ { plan.perTag[a].tag : a \in 1..Len(plan.perTag) } =
              UNION { Range(TagsOf(project, tagged[k])) : k \in 1..Len(tagged) }
        /\ \A a \in 1..Len(plan.perTag) :
              plan.perTag[a].count =
                Cardinality(Occurrences(project, tagged, plan.perTag[a].tag))

\* the last request was an export request that built its plan
PlanBuilt ==
    /\ response.op \in {"export-dry-run", "export-execute"}
    /\ response.ok \/ response.log # <<>>

\* C11: the plan of an export request is the one derived from the project:
\* a photo without tags counts as untagged and gives no operation; a photo
\* with tags gives one move from its path in the root into the folder of
\* its first tag and, for each further tag, one link from the destination
\* of that move into the folder of the tag; total = tagged + untagged; and
\* perTag counts every place a tag stands at, first or further.
C11_PlanIsReferenceDerivation ==
    PlanBuilt =>
        PlanIsDerivedFrom(response.plan, store.project, photos,
                          ExportRootOf(response.arg.root),
                          RootOf(sourceFolder), caseInsensitive)

\* img001.jpg holds Yes and Maybe, img001_1.jpg holds Yes: two moves, one
\* link, Yes counted twice and Maybe once.
C11_Witness ==
    /\ response.op = "export-dry-run"
    /\ response.ok
    /\ response.plan.total = 2
    /\ response.plan.tagged = 2
    /\ response.plan.untagged = 0
    /\ Len(response.plan.moves) = 2
    /\ Len(response.plan.links) = 1
    /\ response.plan.perTag =
          <<[tag |-> Yes, count |-> 2], [tag |-> Maybe, count |-> 1]>>


\* an export request was served and built its plan
ExportPlanned ==
    /\ Handled("export-dry-run") \/ Handled("export-execute")
    /\ response'.ok \/ response'.log # <<>>

\* the file is where it was, or it is where the plan moved it to
KeptOrMoved(f, plan, after) ==
    \/ f \in after.files
    \/ \E k \in 1..Len(plan.moves) :
          /\ plan.moves[k].src = PathOf(f.dir, f.name)
          /\ [dir |-> plan.moves[k].dest.dir,
              name |-> plan.moves[k].dest.name,
              data |-> f.data, ino |-> f.ino] \in after.files

\* C12: no destination of a move or of a link of a plan is the path of a
\* file that exists when the plan is built; and export-execute, which runs
\* the plan it has just built, overwrites no file that existed: every file
\* is afterwards where it was, or where the plan moved it to.
C12_DestinationsCollisionSafe ==
    [][ExportPlanned =>
          /\ \A k \in 1..Len(response'.plan.moves) :
                ~existsSync(disk, response'.plan.moves[k].dest)
          /\ \A k \in 1..Len(response'.plan.links) :
                ~existsSync(disk, response'.plan.links[k].dest)
          /\ Handled("export-execute") /\ response'.ok =>
                \A f \in disk.files :
                    KeptOrMoved(f, response'.plan, disk')]_vars


\* the attempt is the one of the plan item, whatever its outcome
AttemptOf(a, kind, item) ==
    a.kind = kind /\ a.src = item.src /\ a.dest = item.dest

\* C13: the file operations of export-execute come in two passes: the
\* moves in the order of the plan, then the links in the order of the plan;
\* when a link is attempted, every move of the plan has been attempted,
\* and the source of the link is the destination of a move that went
\* through before.
C13_MovesThenLinks ==
    response.op = "export-execute" =>
        \A k \in 1..Len(response.log) :
            IF k <= Len(response.plan.moves)
            THEN AttemptOf(response.log[k], "move", response.plan.moves[k])
            ELSE /\ AttemptOf(response.log[k], "link",
                              response.plan.links[k - Len(response.plan.moves)])
                 /\ \E j \in 1..(k - 1) :
                       /\ response.log[j].kind = "move"
                       /\ ~response.log[j].threw
                       /\ response.log[j].dest = response.log[k].src

\* Two photos were moved and then one of them was linked into the folder
\* of its second tag.
C13_Witness ==
    /\ response.op = "export-execute"
    /\ response.ok
    /\ Len(response.plan.moves) = 2
    /\ Len(response.log) = 3
    /\ response.log[3].kind = "link"
    /\ ~response.log[3].threw
    /\ existsSync(disk, response.log[3].dest)

\* the attempts of the log that went through
Completed(log, kind) ==
    Cardinality({ k \in 1..Len(log) : log[k].kind = kind /\ ~log[k].threw })

\* C14: export-execute attempts every move and every link of its plan,
\* also after a move that failed, and returns ok with the numbers of moves
\* and of links that went through.
C14_FailedMoveDoesNotAbort ==
    response.op = "export-execute" /\ response.log # <<>> =>
        /\ Len(response.log) =
              Len(response.plan.moves) + Len(response.plan.links)
        /\ response.ok
        /\ response.n1 = Completed(response.log, "move")
        /\ response.n2 = Completed(response.log, "link")


(***************************************************************************)
(* Revert, once more                                                       *)
(***************************************************************************)

\* C19: a revert-export that is the request right after a revert-export
\* which returned ok finds nothing to do: it returns ok, restored = 0 and
\* removed = 0, and leaves files, folders and the project directory as
\* they are.
C19_RevertIdempotent ==
    [][response.op = "revert-export" /\ response.ok
         /\ Handled("revert-export") =>
            /\ response'.ok
            /\ response'.n1 = 0
            /\ response'.n2 = 0
            /\ disk' = disk
            /\ pfs' = pfs]_vars

\* A revert-export has just moved an exported photo back, and a request
\* can follow it.
C19_Witness ==
    /\ response.op = "revert-export"
    /\ response.ok
    /\ response.n1 = 1
    /\ store.exists
    /\ TagsOf(store.project, Img1) # <<>>
    /\ existsSync(disk, PathOf(SrcRoot(caseInsensitive), Img1))
    /\ requests < MaxRequests


(***************************************************************************)
(* The main process on a root found in any state: with or without a        *)
(* project directory, writable or read-only.                               *)
(***************************************************************************)

InitFound ==
    /\ sourceFolder = ""
    /\ photos = <<>>
    /\ photosDir = ""
    /\ store = NoStore
    /\ hasStats = FALSE
    /\ timers = <<>>
    /\ response = NoResponse
    /\ caseInsensitive = FALSE
    /\ disk = InitialDisk(FALSE)
    /\ pfs \in StoreInitialDirs
    /\ writable \in BOOLEAN
    /\ requests = 0
    /\ pc = "idle"
    /\ writing = NoWrite
    /\ selecting = NotSelecting
    /\ bdir = NoBackups
    /\ stats = NoStats

NextFound ==
    \/ SelectSourceFolder
    \/ AddPhotoTag(Img1, RawString(Yes))
    \/ RevertExport
    \/ SaveTimerFires
    \/ Tick

SpecFound == InitFound /\ [][NextFound]_vars

Unreadable == "gone"

OpenRoots == {"src", Unreadable}

\* lines 74-79, up to the await of orderPhotos; readdirSync throws for the
\* folder that cannot be listed, and the handler returns null
OpenChoose(root) ==
    /\ selecting.pc = "idle"
    /\ sourceFolder' = root
    /\ IF root = Unreadable
       THEN /\ Served
            /\ response' = Reply("select-source-folder", NoArg, FALSE, <<>>,
                                 0, 0)
            /\ UNCHANGED selecting
       ELSE /\ requests < MaxRequests
            /\ selecting' = [pc |-> "ordering",
                             scanned |-> ScanPhotos(disk, caseInsensitive)]
            /\ UNCHANGED <<requests, response>>
    /\ UNCHANGED <<photos, photosDir, store, hasStats, timers, disk, pfs,
                   writable, caseInsensitive, awVars>>

\* lines 79-124, from the moment orderPhotos resolves
OpenOrdered ==
    /\ selecting.pc = "ordering"
    /\ \E stampTaken \in BOOLEAN :
        \E r \in {loadOrCreate(pfs, selecting.scanned, writable, stampTaken)} :
            /\ Served
            /\ photos' = selecting.scanned
            /\ photosDir' = "src"
            /\ store' = [exists |-> TRUE, root |-> sourceFolder,
                         project |-> r.project, saveTimer |-> NoTimer]
            /\ hasStats' = TRUE
            /\ timers' = Orphaned(timers)
            /\ pfs' = r.pfs
            /\ response' = Reply("select-source-folder", NoArg, TRUE, <<>>,
                                 Len(selecting.scanned), 0)
            /\ selecting' = NotSelecting
    /\ UNCHANGED <<sourceFolder, disk, writable, caseInsensitive, awVars>>

InitOpen ==
    /\ sourceFolder = ""
    /\ photos = <<>>
    /\ photosDir = ""
    /\ store = NoStore
    /\ hasStats = FALSE
    /\ timers = <<>>
    /\ response = NoResponse
    /\ caseInsensitive = FALSE
    /\ disk = InitialDisk(FALSE)
    /\ pfs = NoProjectDir
    /\ writable = TRUE
    /\ requests = 0
    /\ pc = "idle"
    /\ writing = NoWrite
    /\ selecting = NotSelecting
    /\ bdir = NoBackups
    /\ stats = NoStats

NextOpen ==
    \/ \E root \in OpenRoots : OpenChoose(root)
    \/ OpenOrdered
    \/ AddPhotoTag(Img1, RawString(Yes))
    \/ RemovePhotoTag(Img1, RawString(yesLower))
    \/ ExportDryRun("")
    \/ \E a \in ExportRootArgs : ExportExecute(a)
    \/ SaveTimerFires
    \/ Tick

SpecOpen == InitOpen /\ [][NextOpen]_vars

\* a tag or export handler runs in this step
HandlerRuns ==
    \E op \in {"add-photo-tag", "remove-photo-tag", "export-dry-run",
               "export-execute"} : Handled(op)

\* sourceFolder, photos and projectManager are those of one root, set by a
\* select-source-folder that ran to its end, or nothing was opened yet
SameRoot ==
    /\ selecting.pc = "idle"
    /\ \/ sourceFolder = "" /\ photosDir = "" /\ ~store.exists
       \/ store.exists /\ store.root = sourceFolder /\ photosDir = sourceFolder

\* C15: whenever a tag or export handler runs, sourceFolder, the photo list
\* and the projectManager belong to the same root and to a scan and a
\* load-or-create that completed, also while a select-source-folder awaits
\* and after one whose scan failed.
C15_NoHalfInitializedState == [][HandlerRuns => SameRoot]_vars

(***************************************************************************)
(* loadOrCreate as a merge                                                 *)
(***************************************************************************)

\* a call of loadOrCreate that returned
LoadOrCreateReturned == requests' = requests + 1 /\ response'.op = "loadOrCreate"

\* the file list that the call was given
DiscoveredNames == CHOOSE l \in StoreFileLists : Len(l) = response'.n1

\* C21: when loadOrCreate returns, every discovered file name is in images,
\* those that the loaded project did not hold with an empty tag list; every
\* entry of the loaded project is there with the tag sequence it had; and
\* project.json holds the merged project.
C21_LoadOrCreateMerges ==
    [][LoadOrCreateReturned =>
          /\ \A n \in Range(DiscoveredNames) :
                /\ n \in ImageNames(store'.project.images)
                /\ n \notin ImageNames(LoadedProject(pfs).images) =>
                      TagsOf(store'.project, n) = <<>>
          /\ \A n \in ImageNames(LoadedProject(pfs).images) :
                /\ n \in ImageNames(store'.project.images)
                /\ TagsOf(store'.project, n) = TagsOf(LoadedProject(pfs), n)
          /\ pfs'.file = JSONstringify(store'.project)]_vars


\* C22: a second call of loadOrCreate with the same file list, made when the
\* first has returned, leaves project.json with the content that the first
\* call left: the same images in the same order, the same tag sequences,
\* the same global tags.
C22_LoadOrCreateIdempotent ==
    [][LoadOrCreateReturned =>
          \A stampTaken \in BOOLEAN :
              loadOrCreate(pfs', DiscoveredNames, writable', stampTaken).pfs.file
                  = pfs'.file]_vars

\* loadOrCreate has returned for the second time on a root that held no
\* project: the first call wrote the project of the two photos, the second
\* made a backup of it and wrote it again.
C22_Witness ==
    /\ response.op = "loadOrCreate"
    /\ response.n1 = 2
    /\ requests = 2
    /\ pfs.backups = 1
    /\ pfs.file = JSONstringify(store.project)
    /\ ImageNames(store.project.images) = {Img1, Img2}


(***************************************************************************)
(* A root that cannot be written, at the time it is opened                 *)
(***************************************************************************)

\* C23: a select-source-folder on a root whose project directory cannot be
\* created or whose project file cannot be written reports the failure to
\* its caller, and no tag request changes the project of that root.
C23_InitFailureIsSurfaced ==
    /\ [](response.op = "select-source-folder" /\ ~writable => ~response.ok)
    /\ [][~writable /\ (Handled("add-photo-tag") \/ Handled("remove-photo-tag"))
            => store'.project = store.project]_vars


(***************************************************************************)
(* Backup rotation of #atomicWrite, file by file.  The name of a backup is *)
(* the time of the write cut to the second, its modification time is the   *)
(* time of the copy.  data is the version of project.json that was copied. *)
(***************************************************************************)

\* steps of the clock in one second
TicksPerSecond == 2

\* the last moment of a run, and the last version that is written
MaxNow == 14

MaxWrites == 8

\* new Date().toISOString().replace(/[-:T.Z]/g, '').slice(0, 14)
stampOf(now) == now \div TicksPerSecond

\* fs.copyFileSync(targetPath, backupPath): a backup of the same name is
\* overwritten
copyBackup(backups, now, data) ==
    { b \in backups : b.stamp # stampOf(now) }
    \cup { [stamp |-> stampOf(now), mtime |-> now, data |-> data] }

Oldest(backups) == CHOOSE b \in backups : \A c \in backups : b.mtime <= c.mtime

Newest(backups) == CHOOSE b \in backups : \A c \in backups : b.mtime >= c.mtime

\* a trim that sorts the oldest first, and unlinks the newest
RECURSIVE trimBackupsKeepOldest(_)
trimBackupsKeepOldest(backups) ==
    IF Cardinality(backups) > MAX
    THEN trimBackupsKeepOldest(backups \ {Newest(backups)})
    ELSE backups

\* lines 121-128: sorted by mtime, the newest first, all after the first
\* MAX are unlinked
RECURSIVE trimBackups(_)
trimBackups(backups) ==
    IF Cardinality(backups) > MAX
    THEN trimBackups(backups \ {Oldest(backups)})
    ELSE backups

\* lines 111-132; nothing is done when there is no file to overwrite, and
\* the catch block leaves the directory as it is when the copy throws
rotateBackups(bd) ==
    IF bd.file = 0 \/ ~bd.usable THEN bd.backups
    ELSE trimBackups(copyBackup(bd.backups, bd.now, bd.file))

\* #atomicWrite on a project directory that can be written
atomicWriteRotating(bd) ==
    [bd EXCEPT !.backups = rotateBackups(bd), !.file = @ + 1]

rotFrame ==
    <<memVars, timers, response, disk, pfs, writable, caseInsensitive,
      requests, pc, writing, selecting, stats>>

RotWrite ==
    /\ bdir.file < MaxWrites
    /\ bdir' = atomicWriteRotating(bdir)
    /\ UNCHANGED rotFrame

RotTick ==
    /\ bdir.now < MaxNow
    /\ bdir' = [bdir EXCEPT !.now = @ + 1]
    /\ UNCHANGED rotFrame

\* the backups directory turns read-only, or writable again
RotChmod ==
    /\ bdir' = [bdir EXCEPT !.usable = ~@]
    /\ UNCHANGED rotFrame

InitRotate ==
    /\ sourceFolder = ""
    /\ photos = <<>>
    /\ photosDir = ""
    /\ store = NoStore
    /\ hasStats = FALSE
    /\ timers = <<>>
    /\ response = NoResponse
    /\ caseInsensitive = FALSE
    /\ disk = InitialDisk(FALSE)
    /\ pfs = NoProjectDir
    /\ writable = TRUE
    /\ requests = 0
    /\ pc = "idle"
    /\ writing = NoWrite
    /\ selecting = NotSelecting
    /\ bdir \in { [NoBackups EXCEPT !.file = f] : f \in {0, 1} }
    /\ stats = NoStats

NextRotate == RotWrite \/ RotTick \/ RotChmod

SpecRotate == InitRotate /\ [][NextRotate]_vars

\* an atomic write ran
Written == bdir'.file = bdir.file + 1

\* the backups that the write unlinked
Trimmed ==
    { b \in bdir.backups : \A k \in bdir'.backups : k.stamp # b.stamp }

\* after a write the directory holds at most MAX backups, and a backup that
\* the write removed is no newer than any that it kept
KeepsNewest ==
    Written =>
        /\ Cardinality(bdir'.backups) <= MAX
        /\ Trimmed # {} => Cardinality(bdir'.backups) = MAX
        /\ \A r \in Trimmed : \A k \in bdir'.backups : r.mtime <= k.mtime

\* C24 as the specification states it: every write over an existing project
\* file leaves a copy of the old file in the backups directory.
C24_EveryOverwriteIsBackedUp ==
    /\ [][Written /\ bdir.file # 0 =>
            \E b \in bdir'.backups :
                b.data = bdir.file /\ b.mtime = bdir.now]_vars
    /\ [][KeepsNewest]_vars

\* C24: every write over an existing project file, made when files can be
\* created in the backups directory, leaves a copy of the old file there,
\* modified at the time of the write; and after every write the directory
\* holds at most MAX backups, those modified last.
C24_BackupRotation ==
    /\ [][Written /\ bdir.file # 0 /\ bdir.usable =>
            \E b \in bdir'.backups :
                b.data = bdir.file /\ b.mtime = bdir.now]_vars
    /\ [][KeepsNewest]_vars

\* A write has just copied the previous version, the directory holds MAX
\* backups, and the copy of the first version is no longer among them.
C24_Witness ==
    /\ bdir.usable
    /\ Cardinality(bdir.backups) = MAX
    /\ \E b \in bdir.backups : b.data = bdir.file - 1 /\ b.mtime = bdir.now
    /\ \A b \in bdir.backups : b.data >= 2
    /\ \A b \in bdir.backups : b.data >= bdir.file - MAX


(***************************************************************************)
(* orderPhotos.  A photo is [hasExif, exif, mtime, name]: hasExif says     *)
(* that a capture time could be read (exifDateMs !== null), name is the    *)
(* base name without its extension, as a sequence of characters.           *)
(***************************************************************************)

DigitChars == <<"0", "1", "2", "3", "4", "5", "6", "7", "8", "9">>

IsDigit(c) == \E i \in 1..10 : DigitChars[i] = c

DigitValue(c) == (CHOOSE i \in 1..10 : DigitChars[i] = c) - 1

\* the primary weight of a letter: its place in the alphabet, whatever its
\* case (sensitivity: 'base')
LetterRank(c) == CHOOSE i \in 1..26 : LowerLetters[i] = LowerChar(c)

\* the length of the run of digits that s starts with
RECURSIVE DigitRun(_)
DigitRun(s) ==
    IF s # <<>> /\ IsDigit(Head(s)) THEN 1 + DigitRun(Tail(s)) ELSE 0

RECURSIVE NumberOf(_, _)
NumberOf(digits, acc) ==
    IF digits = <<>> THEN acc
    ELSE NumberOf(Tail(digits), 10 * acc + DigitValue(Head(digits)))

\* The collation key of a name with { numeric: true }: a run of digits is
\* one element that counts by its value, a letter one element that counts
\* by its rank.
RECURSIVE CollationKey(_)
CollationKey(s) ==
    IF s = <<>> THEN <<>>
    ELSE IF IsDigit(Head(s))
    THEN LET n == DigitRun(s)
         IN  <<[num |-> TRUE, v |-> NumberOf(SubSeq(s, 1, n), 0)]>>
             \o CollationKey(SubSeq(s, n + 1, Len(s)))
    ELSE <<[num |-> FALSE, v |-> LetterRank(Head(s))]>>
         \o CollationKey(Tail(s))

\* digits sort before letters
CompareElements(x, y) ==
    IF x.num # y.num THEN (IF x.num THEN -1 ELSE 1)
    ELSE x.v - y.v

RECURSIVE CompareKeys(_, _)
CompareKeys(k, l) ==
    IF k = <<>> THEN (IF l = <<>> THEN 0 ELSE -1)
    ELSE IF l = <<>> THEN 1
    ELSE IF CompareElements(Head(k), Head(l)) # 0
    THEN CompareElements(Head(k), Head(l))
    ELSE CompareKeys(Tail(k), Tail(l))

\* a.localeCompare(b, undefined, { numeric: true, sensitivity: 'base' })
localeCompare(a, b) == CompareKeys(CollationKey(a), CollationKey(b))

\* a comparison that looks at the modification time first
comparePhotosByMtime(a, b) ==
    IF a.mtime # b.mtime THEN a.mtime - b.mtime
    ELSE IF a.hasExif /\ b.hasExif /\ a.exif # b.exif THEN a.exif - b.exif
    ELSE IF a.hasExif /\ ~b.hasExif THEN -1
    ELSE IF ~a.hasExif /\ b.hasExif THEN 1
    ELSE localeCompare(a.name, b.name)

\* the comparison function of lines 310-323
comparePhotos(a, b) ==
    IF a.hasExif /\ b.hasExif /\ a.exif # b.exif THEN a.exif - b.exif
    ELSE IF a.hasExif /\ ~b.hasExif THEN -1
    ELSE IF ~a.hasExif /\ b.hasExif THEN 1
    ELSE IF a.mtime # b.mtime THEN a.mtime - b.mtime
    ELSE localeCompare(a.name, b.name)

\* x is put before the first entry that it is to come before
RECURSIVE InsertPhoto(_, _)
InsertPhoto(sorted, x) ==
    IF sorted = <<>> THEN <<x>>
    ELSE IF comparePhotos(x, Head(sorted)) < 0 THEN <<x>> \o sorted
    ELSE <<Head(sorted)>> \o InsertPhoto(Tail(sorted), x)

\* Array.prototype.sort, which is stable
RECURSIVE SortPhotos(_, _)
SortPhotos(sorted, rest) ==
    IF rest = <<>> THEN sorted
    ELSE SortPhotos(InsertPhoto(sorted, Head(rest)), Tail(rest))

orderPhotos(filePaths) == SortPhotos(<<>>, filePaths)

\* the longest list that is ordered
MaxPhotos == 3

OrderNames ==
    { <<"a", "2">>, <<"A", "2">>, <<"a", "1", "0">>, <<"b">> }

OrderPool ==
    { [hasExif |-> e > 0, exif |-> e, mtime |-> m, name |-> n] :
        e \in 0..2, m \in 0..1, n \in OrderNames }

\* the lists of photos of one folder: no two of the same name
OrderInputs ==
    { l \in UNION { [1..n -> OrderPool] : n \in 0..MaxPhotos } :
        \A i, j \in 1..Len(l) : l[i].name = l[j].name => i = j }

\* line 79: photos = await orderPhotos(scanned)
OrderScanned ==
    /\ selecting.pc = "ordering"
    /\ photos' = orderPhotos(selecting.scanned)
    /\ selecting' = [selecting EXCEPT !.pc = "ordered"]
    /\ UNCHANGED <<sourceFolder, photosDir, store, hasStats, timers, response,
                   disk, pfs, writable, caseInsensitive, requests, awVars>>

InitOrder ==
    /\ sourceFolder = "src"
    /\ photos = <<>>
    /\ photosDir = ""
    /\ store = NoStore
    /\ hasStats = FALSE
    /\ timers = <<>>
    /\ response = NoResponse
    /\ caseInsensitive = FALSE
    /\ disk = InitialDisk(FALSE)
    /\ pfs = NoProjectDir
    /\ writable = TRUE
    /\ requests = 0
    /\ pc = "idle"
    /\ writing = NoWrite
    /\ selecting \in { [pc |-> "ordering", scanned |-> l] : l \in OrderInputs }
    /\ bdir = NoBackups
    /\ stats = NoStats

NextOrder == OrderScanned

SpecOrder == InitOrder /\ [][NextOrder]_vars

\* a comes before b by the stated precedence: capture time first, a photo
\* that has one before a photo that has none; then modification time; then
\* the name in natural order, whatever the case
ComesBefore(a, b) ==
    \/ a.hasExif /\ ~b.hasExif
    \/ a.hasExif /\ b.hasExif /\ a.exif < b.exif
    \/ /\ a.hasExif = b.hasExif
       /\ a.hasExif => a.exif = b.exif
       /\ \/ a.mtime < b.mtime
          \/ a.mtime = b.mtime /\ localeCompare(a.name, b.name) < 0

\* C25: the list that orderPhotos returns holds the photos it was given, and
\* no photo of it comes after one that it is to come before: photos with a
\* capture time before those without, by capture time, then by modification
\* time, then by name in natural order, whatever the case.
C25_OrderByPrecedence ==
    selecting.pc = "ordered" =>
        /\ Len(photos) = Len(selecting.scanned)
        /\ Range(photos) = Range(selecting.scanned)
        /\ \A i, j \in 1..Len(photos) :
              i < j => ~ComesBefore(photos[j], photos[i])

\* T1 < T2 and a photo without capture time, given in the reverse order
C25_Witness ==
    /\ selecting.pc = "ordered"
    /\ Len(photos) = 3
    /\ photos[1].hasExif /\ photos[2].hasExif /\ ~photos[3].hasExif
    /\ photos[1].exif < photos[2].exif
    /\ photos[1].mtime > photos[2].mtime
    /\ selecting.scanned = <<photos[3], photos[2], photos[1]>>


\* the list in the order that the permutation p of its indices gives
Permuted(list, p) == [i \in 1..Len(list) |-> list[p[i]]]

\* C26: whatever the order in which the photos of a folder are listed,
\* orderPhotos returns them in one and the same order.
C26_OrderIgnoresEnumeration ==
    selecting.pc = "ordered" =>
        \A p \in Permutations(1..Len(selecting.scanned)) :
            orderPhotos(Permuted(selecting.scanned, p)) = photos


(***************************************************************************)
(* Duplicate detection of StatsManager.  A photo file is                   *)
(* [name, readable, bytes]; PrefixLimit stands for the 10 MiB that         *)
(* calculateFileHash reads at most.  MD5 is taken to be free of            *)
(* collisions: the digest of a sequence of bytes is that sequence.         *)
(***************************************************************************)

\* maxBytes, in bytes of the model
PrefixLimit == 2

\* the longest scan
MaxScan == 3

Minimum(a, b) == IF a < b THEN a ELSE b

\* a hash of the whole file
calculateFileHashWhole(file) ==
    IF ~file.readable THEN [error |-> TRUE, of |-> file.name, md5 |-> <<>>]
    ELSE [error |-> FALSE, of |-> "", md5 |-> file.bytes]

\* calculateFileHash: the digest of the first bytesToRead bytes, or
\* error_<basename>_<time> when the file cannot be opened or read
calculateFileHash(file) ==
    IF ~file.readable THEN [error |-> TRUE, of |-> file.name, md5 |-> <<>>]
    ELSE [error |-> FALSE, of |-> "",
          md5 |-> SubSeq(file.bytes, 1, Minimum(PrefixLimit, Len(file.bytes)))]

\* photoHashes, a Map, as the sequence of its [hash, photo] entries
MapHas(map, hash) == \E i \in 1..Len(map) : map[i].hash = hash

MapGet(map, hash) == map[CHOOSE i \in 1..Len(map) : map[i].hash = hash].photo

MapSet(map, hash, photo) ==
    IF MapHas(map, hash)
    THEN [i \in 1..Len(map) |->
            IF map[i].hash = hash THEN [hash |-> hash, photo |-> photo]
            ELSE map[i]]
    ELSE Append(map, [hash |-> hash, photo |-> photo])

\* a loop body that remembers the last photo of a fingerprint
CheckDuplicateLatest(acc, file) ==
    LET hash == calculateFileHash(file)
    IN  [photoHashes |-> MapSet(acc.photoHashes, hash, file.name),
         duplicates |->
            IF MapHas(acc.photoHashes, hash) /\ ~hash.error
            THEN Append(acc.duplicates,
                        [original |-> MapGet(acc.photoHashes, hash),
                         duplicate |-> file.name])
            ELSE acc.duplicates]

\* the body of the loop of lines 61-75 for one photo
CheckDuplicate(acc, file) ==
    LET hash == calculateFileHash(file)
    IN  IF MapHas(acc.photoHashes, hash) /\ ~hash.error
        THEN [acc EXCEPT !.duplicates =
                Append(@, [original |-> MapGet(acc.photoHashes, hash),
                           duplicate |-> file.name])]
        ELSE [acc EXCEPT !.photoHashes = MapSet(@, hash, file.name)]

RECURSIVE CheckDuplicates(_, _)
CheckDuplicates(acc, files) ==
    IF files = <<>> THEN acc
    ELSE CheckDuplicates(CheckDuplicate(acc, Head(files)), Tail(files))

\* initialize(photos): this.stats after the call
initialize(files) ==
    [total |-> Len(files),
     duplicates |->
        CheckDuplicates([photoHashes |-> <<>>, duplicates |-> <<>>],
                        files).duplicates]

ScanNames == <<"p1.jpg", "p2.jpg", "p3.jpg">>

Bytes == {0, 1}

Contents == UNION { [1..n -> Bytes] : n \in 0..(PrefixLimit + 1) }

\* the files of a scan, in scan order
ScanInputs ==
    UNION { { [i \in 1..n |->
                 [name |-> ScanNames[i], readable |-> c[i] # <<2>>,
                  bytes |-> IF c[i] = <<2>> THEN <<>> ELSE c[i]]] :
              c \in [1..n -> Contents \cup {<<2>>}] } : n \in 0..MaxScan }

\* lines 97-98 of select-source-folder
InitializeStats ==
    /\ selecting.pc = "ordered"
    /\ stats' = initialize(photos)
    /\ hasStats' = TRUE
    /\ selecting' = [selecting EXCEPT !.pc = "idle"]
    /\ UNCHANGED <<sourceFolder, photos, photosDir, store, timers, response,
                   disk, pfs, writable, caseInsensitive, requests, pc,
                   writing, bdir>>

InitScan ==
    /\ sourceFolder = "src"
    /\ photos \in ScanInputs
    /\ photosDir = "src"
    /\ store = NoStore
    /\ hasStats = FALSE
    /\ timers = <<>>
    /\ response = NoResponse
    /\ caseInsensitive = FALSE
    /\ disk = InitialDisk(FALSE)
    /\ pfs = NoProjectDir
    /\ writable = TRUE
    /\ requests = 0
    /\ pc = "idle"
    /\ writing = NoWrite
    /\ selecting = [pc |-> "ordered", scanned |-> <<>>]
    /\ bdir = NoBackups
    /\ stats = NoStats

NextScan == InitializeStats

SpecScan == InitScan /\ [][NextScan]_vars

\* the photo at i has the fingerprint of a photo before it, no fallback
RepeatsFingerprint(i) ==
    /\ photos[i].readable
    /\ \E j \in 1..(i - 1) :
          calculateFileHash(photos[j]) = calculateFileHash(photos[i])

\* the first photo of the scan with the fingerprint of the photo at i
FirstOfGroup(i) ==
    photos[CHOOSE j \in 1..i :
              /\ calculateFileHash(photos[j]) = calculateFileHash(photos[i])
              /\ \A k \in 1..(j - 1) :
                    calculateFileHash(photos[k]) # calculateFileHash(photos[i])]

RepeatIndices ==
    SelectSeq([i \in 1..Len(photos) |-> i], LAMBDA i : RepeatsFingerprint(i))

\* C27: the duplicates that initialize records are, in scan order, one pair
\* for every photo that has the fingerprint of a photo before it, with the
\* first photo of that fingerprint as original: k - 1 pairs for a group of
\* k; a photo that could not be read is in no pair; and two photos no longer
\* than the prefix limit that hold the same bytes are a pair, or the
\* duplicates of the same original.
C27_DuplicatePairs ==
    hasStats =>
        /\ stats.duplicates =
              [n \in 1..Len(RepeatIndices) |->
                  [original |-> FirstOfGroup(RepeatIndices[n]).name,
                   duplicate |-> photos[RepeatIndices[n]].name]]
        /\ \A i \in 1..Len(photos) : ~photos[i].readable =>
              \A n \in 1..Len(stats.duplicates) :
                  /\ stats.duplicates[n].original # photos[i].name
                  /\ stats.duplicates[n].duplicate # photos[i].name
        /\ \A i, j \in 1..Len(photos) :
              /\ i < j
              /\ photos[i].readable /\ photos[j].readable
              /\ Len(photos[i].bytes) <= PrefixLimit
              /\ photos[i].bytes = photos[j].bytes
              => \E n \in 1..Len(stats.duplicates) :
                    /\ stats.duplicates[n].duplicate = photos[j].name
                    /\ stats.duplicates[n].original = FirstOfGroup(i).name

\* three photos of the same bytes, below the prefix limit: two pairs, both
\* with the first photo as original
C27_Witness ==
    /\ hasStats
    /\ Len(photos) = 3
    /\ \A i \in 1..3 : photos[i].readable /\ photos[i].bytes = <<1>>
    /\ stats.duplicates =
          << [original |-> "p1.jpg", duplicate |-> "p2.jpg"],
             [original |-> "p1.jpg", duplicate |-> "p3.jpg"] >>

\* the photos at i and j have the same size, the same bytes up to the
\* prefix limit, and different bytes after it
DifferAfterPrefix(i, j) ==
    /\ i < j
    /\ photos[i].readable /\ photos[j].readable
    /\ Len(photos[i].bytes) = Len(photos[j].bytes)
    /\ Len(photos[i].bytes) > PrefixLimit
    /\ SubSeq(photos[i].bytes, 1, PrefixLimit) =
          SubSeq(photos[j].bytes, 1, PrefixLimit)
    /\ photos[i].bytes # photos[j].bytes

\* C28 as the specification states it: two photos of the same size that
\* differ only after the prefix limit are not reported as a pair.
C28_DifferingTailsNotReported ==
    hasStats =>
        \A i, j \in 1..Len(photos) : DifferAfterPrefix(i, j) =>
            \A n \in 1..Len(stats.duplicates) :
                ~(/\ stats.duplicates[n].original = photos[i].name
                  /\ stats.duplicates[n].duplicate = photos[j].name)

\* C28: two photos of the same size that differ only after the prefix limit
\* have the same fingerprint, and the later one is reported as a duplicate,
\* of the first photo of the scan that starts with the same bytes.
C28_DifferingTailsReported ==
    hasStats =>
        \A i, j \in 1..Len(photos) : DifferAfterPrefix(i, j) =>
            \E n \in 1..Len(stats.duplicates) :
                /\ stats.duplicates[n].duplicate = photos[j].name
                /\ stats.duplicates[n].original = FirstOfGroup(i).name

\* two photos that differ in their last byte alone, reported as a pair
C28_Witness ==
    /\ hasStats
    /\ Len(photos) = 2
    /\ DifferAfterPrefix(1, 2)
    /\ stats.duplicates = << [original |-> "p1.jpg", duplicate |-> "p2.jpg"] >>


(***************************************************************************)
(* Photos without tags, and the links of the secondary tags                *)
(***************************************************************************)

\* the path of a photo of the list in the source folder
PhotoPath(n) ==
    PathOf(Dir(RootOf(sourceFolder), <<>>, caseInsensitive), n)

\* the photos of the list that hold no tag
UntaggedPhotos ==
    { n \in Range(photos) : ~store.exists \/ TagsOf(store.project, n) = <<>> }

\* C29: export-execute leaves every photo that has no tag where it is: its
\* file in the root is the same after the request, with the same content,
\* and its path is neither the source nor the destination of a move or of a
\* link that the request planned or attempted.
C29_UntaggedStayInPlace ==
    [][Handled("export-execute") =>
          \A n \in UntaggedPhotos :
              /\ FilesAt(disk', PhotoPath(n)) = FilesAt(disk, PhotoPath(n))
              /\ \A k \in 1..Len(response'.plan.moves) :
                    /\ response'.plan.moves[k].src # PhotoPath(n)
                    /\ response'.plan.moves[k].dest # PhotoPath(n)
              /\ \A k \in 1..Len(response'.plan.links) :
                    /\ response'.plan.links[k].src # PhotoPath(n)
                    /\ response'.plan.links[k].dest # PhotoPath(n)
              /\ \A k \in 1..Len(response'.log) :
                    /\ response'.log[k].src # PhotoPath(n)
                    /\ response'.log[k].dest # PhotoPath(n)]_vars

\* export-execute has moved a tagged photo and linked it, and the photo
\* without tags is in the root
C29_Witness ==
    /\ response.op = "export-execute"
    /\ response.ok
    /\ response.n1 = 1
    /\ response.n2 = 1
    /\ store.exists
    /\ Len(photos) = 2
    /\ \E n \in UntaggedPhotos :
          /\ existsSync(disk, PhotoPath(n))
          /\ \A m \in Range(photos) \ {n} : ~existsSync(disk, PhotoPath(m))


(***************************************************************************)
(* The link pass of export-execute, on a folder that holds img001.jpg and  *)
(* img001_1.jpg, on a filesystem with or without hard links.  The folder  *)
(* may hold the project of an earlier session, in which img001.jpg was     *)
(* given the tags Maybe and Yes.                                           *)
(***************************************************************************)

LinkInitialDirs ==
    { NoProjectDir, DirWith(JSONstringify(ProjectOf(Img1, <<Maybe, Yes>>))) }

LinkPayloads ==
    { <<Img1, RawString(Yes)>>, <<Img1, RawString(Maybe)>>,
      <<Img1b, RawString(Yes)>>, <<Img1b, RawString(Maybe)>> }

InitLink ==
    /\ sourceFolder = ""
    /\ photos = <<>>
    /\ photosDir = ""
    /\ store = NoStore
    /\ hasStats = FALSE
    /\ timers = <<>>
    /\ response = NoResponse
    /\ caseInsensitive = FALSE
    /\ \E earlier, hardLinks \in BOOLEAN :
          disk = [ExportDisk(FALSE, earlier) EXCEPT !.hardLinks = hardLinks]
    /\ pfs \in LinkInitialDirs
    /\ writable = TRUE
    /\ requests = 0
    /\ pc = "idle"
    /\ writing = NoWrite
    /\ selecting = NotSelecting
    /\ bdir = NoBackups
    /\ stats = NoStats

NextLink ==
    \/ SelectSourceFolder
    \/ \E p \in LinkPayloads : AddPhotoTag(p[1], p[2])
    \/ \E a \in ExportRootArgs : ExportExecute(a)
    \/ SaveTimerFires
    \/ Tick

SpecLink == InitLink /\ [][NextLink]_vars

\* the plan that the export-execute of this step builds, and the disk that
\* its link pass starts from
PlannedNow ==
    buildExportPlan(disk, store.exists, store.project, photos,
                    ExportRootOf(response'.arg.root), sourceFolder,
                    caseInsensitive)

MovedNow == ExecuteMoves(PlannedNow.disk, PlannedNow.plan.moves)

\* every link of the list whose fs.linkSync fails leaves every file but its
\* destination as it was
RECURSIVE FallbackChangesOnlyDest(_, _)
FallbackChangesOnlyDest(d, links) ==
    links = <<>> \/
    LET l == Head(links)
        d1 == ensureDirSync(d, l.dest.dir)
        r == linkOrCopySync(d1, l.src, l.dest)
    IN  /\ linkSync(d1, l.src, l.dest).threw =>
              \A f \in d1.files :
                  PathOf(f.dir, f.name) # l.dest => f \in r.disk.files
        /\ r.threw \/ FallbackChangesOnlyDest(r.disk, Tail(links))

\* C30: when export-execute has gone through, the destination of every link
\* of its plan exists and holds the content of the photo of the link, which
\* is the content that the source of the link had when the moves were done
\* and the link pass began; and a link that fell back to the copy changed
\* no file other than its destination.
C30_LinkFallback ==
    [][Handled("export-execute") /\ response'.ok =>
          /\ \A k \in 1..Len(response'.plan.links) :
                /\ existsSync(disk', response'.plan.links[k].dest)
                /\ DataAt(disk', response'.plan.links[k].dest)
                     = DataAt(MovedNow.disk, response'.plan.links[k].src)
          /\ FallbackChangesOnlyDest(MovedNow.disk, PlannedNow.plan.links)]_vars


\* no two links of the plan of the request share a destination, and no link
\* ends where a move ends
FreeDestinations ==
    /\ \A k1, k2 \in 1..Len(response'.plan.links) :
          k1 # k2 =>
              response'.plan.links[k1].dest # response'.plan.links[k2].dest
    /\ \A k \in 1..Len(response'.plan.links) :
       \A j \in 1..Len(response'.plan.moves) :
          response'.plan.links[k].dest # response'.plan.moves[j].dest

\* With destinations that no other operation of the plan writes to, the
\* link pass does what C30 says, by a link or by the copy.
LinkFallbackOnFreeDestinations ==
    [][Handled("export-execute") /\ response'.ok /\ FreeDestinations =>
          /\ \A k \in 1..Len(response'.plan.links) :
                /\ existsSync(disk', response'.plan.links[k].dest)
                /\ DataAt(disk', response'.plan.links[k].dest)
                     = DataAt(MovedNow.disk, response'.plan.links[k].src)
          /\ FallbackChangesOnlyDest(MovedNow.disk, PlannedNow.plan.links)]_vars

\* export-execute has gone through on a filesystem without hard links: both
\* links of its plan were made by the copy, each destination is a file of
\* its own
LinkFallbackTaken ==
    /\ response.op = "export-execute"
    /\ response.ok
    /\ ~disk.hardLinks
    /\ Len(response.plan.links) = 2
    /\ \A k \in 1..2 :
          /\ existsSync(disk, response.plan.links[k].dest)
          /\ InoAt(disk, response.plan.links[k].dest)
               # InoAt(disk, response.plan.links[k].src)


(***************************************************************************)
(* safeTagToFolder on its own: short tags over a few characters, and the   *)
(* same tags behind a run of letters that brings them to the length where  *)
(* the result is cut.                                                      *)
(***************************************************************************)

MaxTail == 2

FolderChars == {"a", " ", ".", ":"}

FolderTails == UNION { [1..n -> FolderChars] : n \in 0..MaxTail }

LongRun == [i \in 1..(MaxFolderLen - 1) |-> "a"]

\* the values of tag in safeTagToFolder(tag)
FolderTags ==
    FolderTails \cup { LongRun \o t : t \in FolderTails }
    \cup { <<"C", "O", "N">>, <<"c", "o", "n">>, <<"l", "p", "t", "1", ".">> }

InitFolder ==
    /\ sourceFolder = ""
    /\ photos = <<>>
    /\ photosDir = ""
    /\ store = NoStore
    /\ hasStats = FALSE
    /\ timers = <<>>
    /\ response = NoResponse
    /\ caseInsensitive = FALSE
    /\ disk = InitialDisk(FALSE)
    /\ pfs = NoProjectDir
    /\ writable = TRUE
    /\ requests = 0
    /\ pc = "idle"
    /\ writing = NoWrite
    /\ selecting = NotSelecting
    /\ bdir = NoBackups
    /\ stats = NoStats

\* one call of safeTagToFolder; the reply holds the tag and the folder name
CallSafeTagToFolder(tag) ==
    /\ Served
    /\ response' = Reply("safeTagToFolder",
                         TagArg(FileNameOf(""), RawString(tag)), TRUE,
                         <<safeTagToFolder(tag)>>, 0, 0)
    /\ UNCHANGED <<storeFrame, store, timers, pfs, writable>>

NextFolder == \E tag \in FolderTags : CallSafeTagToFolder(tag)

SpecFolder == InitFolder /\ [][NextFolder]_vars

FolderNamed == response.op = "safeTagToFolder"

FolderName == response.tags[1]

\* C31: the name that safeTagToFolder returns is not empty, has at most 100
\* characters and ends with neither a dot nor a space.
C31_FolderNameKeepsRules ==
    FolderNamed =>
        /\ FolderName # <<>>
        /\ Len(FolderName) <= MaxFolderLen
        /\ FolderName[Len(FolderName)] \notin {" ", "."}

\* A name that was not cut keeps the rules: a tag that leaves at most 100
\* characters after the replacements yields a name that is not empty and
\* ends with neither a dot nor a space.
FolderNameKeepsRulesUncut ==
    FolderNamed /\ Len(response.arg.tag.chars) <= MaxFolderLen =>
        /\ FolderName # <<>>
        /\ Len(FolderName) <= MaxFolderLen
        /\ FolderName[Len(FolderName)] \notin {" ", "."}

\* a name was cut to 100 characters
FolderNameCut ==
    /\ FolderNamed
    /\ Len(response.arg.tag.chars) > MaxFolderLen
    /\ Len(FolderName) = MaxFolderLen


(***************************************************************************)
(* Photos under the root across revert-export                              *)
(***************************************************************************)

\* the contents of the photos that are in the root when the folder is
\* opened
PhotoContents == {"photo1", "photo2"}

\* a file under the source folder, in the root or in a folder of it, holds
\* the content
HeldUnderRoot(d, content) ==
    \E f \in d.files : f.data = content /\ f.dir.root = "src"

\* C32: revert-export on a writable folder loses no photo: the content of a
\* photo of the opened folder that is on a file under the root before the
\* request is on a file under the root after it.
C32_NoPhotoLostByRevert ==
    [][Handled("revert-export") /\ writable =>
          \A content \in PhotoContents :
              HeldUnderRoot(disk, content) => HeldUnderRoot(disk', content)]_vars


(***************************************************************************)
(* Export plans of photos with tags that name one folder: Yes and "Yes."   *)
(* are different tags, and safeTagToFolder gives both the folder Yes.      *)
(***************************************************************************)

YesDot == <<"Y", "e", "s", ".">>

SameFolderPayloads ==
    { <<Img1, RawString(Yes)>>, <<Img1, RawString(YesDot)>>,
      <<Img1b, RawString(Yes)>> }

NextSameFolder ==
    \/ SelectSourceFolder
    \/ \E p \in SameFolderPayloads : AddPhotoTag(p[1], p[2])
    \/ \E a \in ExportRootArgs : ExportDryRun(a)
    \/ \E a \in ExportRootArgs : ExportExecute(a)
    \/ SaveTimerFires
    \/ Tick

SpecSameFolder == InitLink /\ [][NextSameFolder]_vars

\* the destinations of the operations of a plan, moves first
PlanDestinations(plan) ==
    [k \in 1..Len(plan.moves) |-> plan.moves[k].dest]
    \o [k \in 1..Len(plan.links) |-> plan.links[k].dest]

PairwiseDistinct(seq) ==
    \A i, j \in 1..Len(seq) : i # j => seq[i] # seq[j]

\* C33: no two operations of the plan that export-dry-run or export-execute
\* has built have the same destination path.
C33_PlanDestinationsDistinct ==
    response.op \in {"export-dry-run", "export-execute"} =>
        PairwiseDistinct(PlanDestinations(response.plan))


(***************************************************************************)
(* The tag methods of a project manager on a project that it has created:  *)
(* no project file is found, addTag and removeTag follow in any order.     *)
(***************************************************************************)

Later == <<"L", "a", "t", "e", "r">>

\* the [fileName, rawTag] arguments of addTag
TagAdditions ==
    { <<Img1, RawString(Yes)>>, <<Img1, RawString(yesLower)>>,
      <<Img1, RawString(Maybe)>>, <<Img1, RawString(Later)>>,
      <<Img2, RawString(yesLower)>>, <<Img2, RawString(Maybe)>> }

\* the [fileName, rawTag] arguments of removeTag
TagRemovals ==
    { <<Img1, RawString(yesLower)>>, <<Img1, RawString(Maybe)>>,
      <<Img2, RawString(Yes)>> }

InitTags ==
    /\ sourceFolder = "src"
    /\ photos = <<>>
    /\ photosDir = ""
    /\ store = [exists |-> TRUE, root |-> "src", project |-> NullProject,
                saveTimer |-> NoTimer]
    /\ hasStats = FALSE
    /\ timers = <<>>
    /\ response = NoResponse
    /\ caseInsensitive \in BOOLEAN
    /\ disk = InitialDisk(FALSE)
    /\ pfs = NoProjectDir
    /\ writable \in BOOLEAN
    /\ requests = 0
    /\ pc = "idle"
    /\ writing = NoWrite
    /\ selecting = NotSelecting
    /\ bdir = NoBackups
    /\ stats = NoStats

NextTags ==
    \/ CallLoadOrCreate(<<Img1, Img2>>)
    \/ \E p \in TagAdditions : CallAddTag(p[1], p[2])
    \/ \E p \in TagRemovals : CallRemoveTag(p[1], p[2])

SpecTags == InitTags /\ [][NextTags]_vars

\* the tags of the photo of the call, before and after it
TagsBefore == TagsOf(store.project, response'.arg.file)

TagsAfter == TagsOf(store'.project, response'.arg.file)

\* C34: addTag on a photo that has tags leaves them where they are and at
\* most appends one tag; removeTag takes out at most one tag, one that
\* equals its argument, and leaves the others in their order; the first tag
\* of the photo changes only when removeTag takes out the first tag, and
\* then the second tag is the first.
C34_PrimaryTagStable ==
    [][/\ AddTagReturned /\ TagsBefore # <<>> =>
            /\ Len(TagsAfter) \in {Len(TagsBefore), Len(TagsBefore) + 1}
            /\ SubSeq(TagsAfter, 1, Len(TagsBefore)) = TagsBefore
       /\ RemoveTagReturned /\ TagsBefore # <<>> =>
            /\ \/ TagsAfter = TagsBefore
               \/ \E i \in 1..Len(TagsBefore) :
                     /\ TagsAfter = RemoveAt(TagsBefore, i)
                     /\ equalTag(TagsBefore[i],
                                 normalizeTag(response'.arg.tag))
            /\ TagsAfter = <<>> \/ TagsAfter[1] # TagsBefore[1] =>
                  /\ equalTag(TagsBefore[1], normalizeTag(response'.arg.tag))
                  /\ TagsAfter = Tail(TagsBefore)]_vars

\* removeTag has taken the first of three tags of img001.jpg: the second is
\* the first now
C34_Witness ==
    /\ response.op = "removeTag"
    /\ response.ok
    /\ response.arg.file = Img1
    /\ response.arg.tag = RawString(yesLower)
    /\ store.project.tags = <<Yes, Maybe, Later>>
    /\ TagsOf(store.project, Img1) = <<Maybe, Later>>


\* the global tag list of the project
GlobalTags ==
    IF store.project.kind = "object" /\ store.project.hasTags
    THEN store.project.tags ELSE <<>>

\* the tags that the photos of the project carry
CarriedTags ==
    UNION { Range(store.project.images[i].tags) :
              i \in 1..Len(store.project.images) }

\* every tag of every photo has an entry in the global tag list that is
\* equal to it when case is ignored
GlobalListCoversTags == \A t \in CarriedTags : containsTag(GlobalTags, t)

\* the directories that the last loop of revert-export removes
RevertedDirs ==
    { Dir("src", safeTagToFolder(GlobalTags[i]), caseInsensitive) :
        i \in 1..Len(GlobalTags) }

\* C35: every tag that a photo carries has a case-insensitively equal entry
\* in the global tag list, and the folder of every tag that a photo carries
\* is among the directories that revert-export removes.
C35_GlobalListCoversFolders ==
    /\ GlobalListCoversTags
    /\ \A t \in CarriedTags :
          Dir("src", safeTagToFolder(t), caseInsensitive) \in RevertedDirs

\* two photos carry the tag under two casings, the global list holds the
\* first casing
TagsUnderTwoCasings ==
    /\ response.op = "addTag"
    /\ TagsOf(store.project, Img1) = <<Yes, Maybe>>
    /\ TagsOf(store.project, Img2) = <<yesLower>>
    /\ GlobalTags = <<Yes, Maybe>>

=============================================================================
